---- MODULE Spec2Model ----
(***************************************************************************)
(* Scoring and flagging engine of the carbon offset quality screener:      *)
(* CarbonQualityScorer.score_all (src/scorer.py) and                       *)
(* RedFlagDetector.detect (src/red_flags.py) over a batch of project       *)
(* records, and the ledger part of clean_project_data (src/cleaner.py).    *)
(*                                                                         *)
(* Representation.                                                         *)
(*  - A DataFrame is a sequence of rows; a row is a function from the      *)
(*    column names present in the frame to values.                         *)
(*  - A nullable cell is <<>> (NaN / NaT / None) or <<v>>.                 *)
(*  - A Python str is a tuple of one-character strings, so that lower(),   *)
(*    strip() and the substring test are computed, not assumed.            *)
(*  - A date is <<year, month, day>>; differences are taken in days        *)
(*    through the proleptic Gregorian day number.                          *)
(*  - A float is an exact rational <<num, den>> in lowest terms, den > 0.  *)
(*    The code computes in IEEE doubles; the model computes the same       *)
(*    expressions exactly, and rounds half to even as round() does.        *)
(*    The sum of the weights is also computed in binary64 (F64Add).        *)
(***************************************************************************)
EXTENDS Integers, Sequences, FiniteSets, TLC

VARIABLES batch, scored, flagged, first, pc, run, now, ticks, reference_date, first_reference,
          weights, summary, df_raw, df_clean

vars == <<batch, scored, flagged, first, pc, run, now, ticks, reference_date, first_reference,
          weights, summary, df_raw, df_clean>>

(***************************************************************************)
(* Bounds of the model.                                                    *)
(***************************************************************************)
\* Wall-clock advances (by TickMonths months each) during one behaviour.
MaxTicks == 1
\* Pipeline runs (score_all then detect) over the same data.
MaxRuns == 2
\* total_issued of the paired records that differ only in total_retired;
\* total_retired ranges over 0..PairIssued.
PairIssued == 20

TickMonths == 6
\* Columns dropped from a scored frame before detect is given it.
MaxDrops == 2
\* Records of the large portfolio.
BigBatch == 2001

(***************************************************************************)
(* Nullable cells.                                                         *)
(***************************************************************************)
NA == <<>>

Some(v) == <<v>>

isna(cell) == cell = <<>>

Val(cell) == cell[1]

(***************************************************************************)
(* Python str operations on tuples of characters.                          *)
(***************************************************************************)
UpperChars == <<"A","B","C","D","E","F","G","H","I","J","K","L","M","N","O","P","Q","R","S","T","U","V","W","X","Y","Z">>

LowerChars == <<"a","b","c","d","e","f","g","h","i","j","k","l","m","n","o","p","q","r","s","t","u","v","w","x","y","z">>

lower_char(c) ==
    IF \E i \in 1..26 : UpperChars[i] = c
    THEN LowerChars[CHOOSE i \in 1..26 : UpperChars[i] = c]
    ELSE c

\* str.lower()
lower(s) == [i \in 1..Len(s) |-> lower_char(s[i])]

\* sub in s
contains(s, sub) ==
    \E i \in 0..(Len(s) - Len(sub)) : SubSeq(s, i + 1, i + Len(sub)) = sub

\* str.strip(): leading and trailing blanks removed
strip(s) ==
    LET nb == {i \in 1..Len(s) : s[i] # " "}
    IN  IF nb = {} THEN <<>>
        ELSE SubSeq(s, CHOOSE i \in nb : \A j \in nb : i <= j,
                       CHOOSE i \in nb : \A j \in nb : i >= j)

(***************************************************************************)
(* Exact rationals standing for the code's floats.                         *)
(***************************************************************************)
RECURSIVE GCD(_, _)
GCD(a, b) == IF b = 0 THEN a ELSE GCD(b, a % b)

Abs(n) == IF n < 0 THEN -n ELSE n

\* n/d in lowest terms (d > 0)
Rat(n, d) ==
    LET g == GCD(Abs(n), d)
    IN  IF n = 0 THEN <<0, 1>> ELSE <<n \div g, d \div g>>

R(n) == <<n, 1>>

LCM(a, b) == (a \div GCD(a, b)) * b

RAdd(a, b) ==
    LET l == LCM(a[2], b[2])
    IN  Rat(a[1] * (l \div a[2]) + b[1] * (l \div b[2]), l)

RNeg(a) == <<-a[1], a[2]>>

RSub(a, b) == RAdd(a, RNeg(b))

RMul(a, b) == Rat(a[1] * b[1], a[2] * b[2])

RLe(a, b) == a[1] * b[2] <= b[1] * a[2]

RLt(a, b) == a[1] * b[2] < b[1] * a[2]

RGe(a, b) == RLe(b, a)

\* Python max(a, b): b when b > a, otherwise a
RMax(a, b) == IF RLt(a, b) THEN b ELSE a

RFloor(a) == a[1] \div a[2]

\* round(): to the nearest integer, ties to the even one
RoundHalfEven(a) ==
    LET f == RFloor(a)
        twice == 2 * (a[1] - f * a[2])
    IN  IF twice < a[2] THEN f
        ELSE IF twice > a[2] THEN f + 1
        ELSE IF f % 2 = 0 THEN f ELSE f + 1

\* round(x, k) for k decimals, scale = 10^k
RoundTo(a, scale) ==
    LET whole == RFloor(a)
        part == <<(a[1] - whole * a[2]) * scale, a[2]>>
    IN  Rat(whole * scale + RoundHalfEven(part), scale)

(***************************************************************************)
(* Dates.                                                                  *)
(***************************************************************************)
\* Days from 1970-01-01 to the civil date <<y, m, d>>.
DayNumber(date) ==
    LET y   == IF date[2] <= 2 THEN date[1] - 1 ELSE date[1]
        era == y \div 400
        yoe == y - era * 400
        mp  == IF date[2] > 2 THEN date[2] - 3 ELSE date[2] + 9
        doy == (153 * mp + 2) \div 5 + date[3] - 1
        doe == yoe * 365 + yoe \div 4 - yoe \div 100 + doy
    IN  era * 146097 + doe - 719468

\* (a - b).days
DaysBetween(a, b) == DayNumber(a) - DayNumber(b)

IsLeap(y) == (y % 4 = 0 /\ y % 100 # 0) \/ y % 400 = 0

DaysInMonth(y, m) ==
    IF m = 2 THEN (IF IsLeap(y) THEN 29 ELSE 28)
    ELSE IF m \in {4, 6, 9, 11} THEN 30 ELSE 31

\* date + pd.DateOffset(months=n): the day is clipped to the target month
AddMonths(date, n) ==
    LET k == (date[1] * 12 + (date[2] - 1)) + n
        y == k \div 12
        m == (k % 12) + 1
        dim == DaysInMonth(y, m)
    IN  <<y, m, IF date[3] > dim THEN dim ELSE date[3]>>

DateLe(a, b) == DayNumber(a) <= DayNumber(b)

(***************************************************************************)
(* src/scorer.py: tables                                                   *)
(***************************************************************************)
STR_REDD_PLUS == <<"R","E","D","D","+">>

STR_AVOIDED_DEFORESTATION == <<"A","v","o","i","d","e","d"," ","D","e","f","o","r","e","s","t","a","t","i","o","n">>

STR_AVOIDED_UNPLANNED == <<"A","v","o","i","d","e","d"," ","U","n","p","l","a","n","n","e","d"," ","D","e","f","o","r","e","s","t","a","t","i","o","n"," ","a","n","d"," ","D","e","g","r","a","d","a","t","i","o","n">>

STR_IFM == <<"I","m","p","r","o","v","e","d"," ","F","o","r","e","s","t"," ","M","a","n","a","g","e","m","e","n","t">>

STR_AFOLU == <<"A","g","r","i","c","u","l","t","u","r","e"," ","F","o","r","e","s","t","r","y"," ","a","n","d"," ","O","t","h","e","r"," ","L","a","n","d"," ","U","s","e">>

STR_ARR == <<"A","f","f","o","r","e","s","t","a","t","i","o","n","/","R","e","f","o","r","e","s","t","a","t","i","o","n">>

HIGH_RISK_TYPES == {STR_REDD_PLUS, STR_AVOIDED_DEFORESTATION, STR_AVOIDED_UNPLANNED}

MEDIUM_RISK_TYPES == {STR_IFM, STR_AFOLU, STR_ARR}

\* country name |-> governance proxy in [0, 1]
COUNTRY_GOVERNANCE_SCORE == {
    <<<<"B","r","a","z","i","l">>, <<55, 100>>>>,
    <<<<"I","n","d","o","n","e","s","i","a">>, <<50, 100>>>>,
    <<<<"P","e","r","u">>, <<60, 100>>>>,
    <<<<"C","o","l","o","m","b","i","a">>, <<55, 100>>>>,
    <<<<"M","e","x","i","c","o">>, <<60, 100>>>>,
    <<<<"K","e","n","y","a">>, <<50, 100>>>>,
    <<<<"T","a","n","z","a","n","i","a">>, <<45, 100>>>>,
    <<<<"C","a","m","b","o","d","i","a">>, <<40, 100>>>>,
    <<<<"I","n","d","i","a">>, <<55, 100>>>>,
    <<<<"C","h","i","n","a">>, <<50, 100>>>>,
    <<<<"V","i","e","t","n","a","m">>, <<45, 100>>>>,
    <<<<"M","a","d","a","g","a","s","c","a","r">>, <<35, 100>>>>,
    <<<<"D","e","m","o","c","r","a","t","i","c"," ","R","e","p","u","b","l","i","c"," ","o","f"," ","t","h","e"," ","C","o","n","g","o">>, <<25, 100>>>>,
    <<<<"U","g","a","n","d","a">>, <<40, 100>>>>,
    <<<<"C","h","i","l","e">>, <<75, 100>>>>,
    <<<<"C","o","s","t","a"," ","R","i","c","a">>, <<75, 100>>>>,
    <<<<"U","r","u","g","u","a","y">>, <<75, 100>>>>,
    <<<<"G","h","a","n","a">>, <<55, 100>>>>,
    <<<<"S","e","n","e","g","a","l">>, <<55, 100>>>>,
    <<<<"R","w","a","n","d","a">>, <<60, 100>>>>,
    <<<<"U","n","i","t","e","d"," ","S","t","a","t","e","s">>, <<85, 100>>>>,
    <<<<"C","a","n","a","d","a">>, <<85, 100>>>>,
    <<<<"A","u","s","t","r","a","l","i","a">>, <<85, 100>>>>,
    <<<<"G","e","r","m","a","n","y">>, <<90, 100>>>>,
    <<<<"S","w","e","d","e","n">>, <<90, 100>>>> }

DEFAULT_GOVERNANCE_SCORE == <<50, 100>>

\* dict.get(key, default)
governance_get(key, default) ==
    IF \E e \in COUNTRY_GOVERNANCE_SCORE : e[1] = key
    THEN (CHOOSE e \in COUNTRY_GOVERNANCE_SCORE : e[1] = key)[2]
    ELSE default

ScoreDims == <<"vintage_score", "retirement_ratio_score", "project_type_score",
               "transparency_score", "additionality_score", "governance_score">>

\* Mutant: the governance weight doubled, so the weights sum to 1.10.
WeightValues_Unnormalised == <<Rat(20, 100), Rat(20, 100), Rat(20, 100), Rat(15, 100), Rat(15, 100), Rat(20, 100)>>

\* WEIGHTS, in the order of ScoreDims
WeightValues == <<Rat(20, 100), Rat(20, 100), Rat(20, 100), Rat(15, 100), Rat(15, 100), Rat(10, 100)>>

WEIGHTS(dim) == WeightValues[CHOOSE i \in 1..6 : ScoreDims[i] = dim]

\* The WEIGHTS dict of the class.
ClassWeights == [dim \in {ScoreDims[i] : i \in 1..Len(ScoreDims)} |-> WEIGHTS(dim)]

\* sum(WEIGHTS.values()) of a weights dict, as a decimal number
RECURSIVE SumWeights(_, _)
SumWeights(w, i) == IF i = 0 THEN R(0) ELSE RAdd(SumWeights(w, i - 1), w[ScoreDims[i]])

(***************************************************************************)
(* src/scorer.py: the six dimension scores                                 *)
(***************************************************************************)
\* row.get(col, default)
row_get(row, col, default) == IF col \in DOMAIN row THEN row[col] ELSE default

\* days / 365.25
Years(days) == Rat(days * 100, 36525)

\* Mutant: the first decay segment measured from age 0 instead of age 3.
_vintage_score_FromZero(row, ref) ==
    LET reg_date == row_get(row, "registration_date", NA)
        age_years == Years(DaysBetween(ref, Val(reg_date)))
    IN  IF isna(reg_date) THEN R(50)
        ELSE IF RLe(age_years, R(3)) THEN R(100)
        ELSE IF RLe(age_years, R(8)) THEN RSub(R(100), RMul(age_years, R(6)))
        ELSE IF RLe(age_years, R(12)) THEN RSub(R(70), RMul(RSub(age_years, R(8)), R(10)))
        ELSE RMax(R(10), RSub(R(30), RMul(RSub(age_years, R(12)), R(5))))

_vintage_score(row, ref) ==
    LET reg_date == row_get(row, "registration_date", NA)
        age_years == Years(DaysBetween(ref, Val(reg_date)))
    IN  IF isna(reg_date) THEN R(50)
        ELSE IF RLe(age_years, R(3)) THEN R(100)
        ELSE IF RLe(age_years, R(8)) THEN RSub(R(100), RMul(RSub(age_years, R(3)), R(6)))
        ELSE IF RLe(age_years, R(12)) THEN RSub(R(70), RMul(RSub(age_years, R(8)), R(10)))
        ELSE RMax(R(10), RSub(R(30), RMul(RSub(age_years, R(12)), R(5))))

_retirement_ratio_score(row) ==
    LET issued == row_get(row, "total_issued", 0)
        retired == row_get(row, "total_retired", 0)
        ratio == Rat(retired, issued)
    IN  IF issued <= 0 THEN R(50)
        ELSE IF RGe(ratio, Rat(80, 100)) THEN R(100)
        ELSE IF RGe(ratio, Rat(50, 100)) THEN RAdd(R(60), RMul(RSub(ratio, Rat(50, 100)), R(200)))
        ELSE IF RGe(ratio, Rat(20, 100)) THEN RAdd(R(30), RMul(RSub(ratio, Rat(20, 100)), R(100)))
        ELSE IF RGe(ratio, Rat(5, 100)) THEN RAdd(R(10), RMul(RSub(ratio, Rat(5, 100)), R(133)))
        ELSE RMax(R(0), RMul(ratio, R(200)))

\* Mutant: the medium-risk set looked at before the high-risk set.
_project_type_score_MediumFirst(project_type) ==
    LET pt == strip(Val(project_type))
    IN  IF isna(project_type) THEN R(50)
        ELSE IF \E mt \in MEDIUM_RISK_TYPES : contains(lower(pt), lower(mt)) THEN R(60)
        ELSE IF \E ht \in HIGH_RISK_TYPES : contains(lower(pt), lower(ht)) THEN R(30)
        ELSE R(85)

_project_type_score(project_type) ==
    LET pt == strip(Val(project_type))
    IN  IF isna(project_type) THEN R(50)
        ELSE IF \E ht \in HIGH_RISK_TYPES : contains(lower(pt), lower(ht)) THEN R(30)
        ELSE IF \E mt \in MEDIUM_RISK_TYPES : contains(lower(pt), lower(mt)) THEN R(60)
        ELSE R(85)

scored_fields == <<"proponent", "region", "crediting_period_start",
                   "crediting_period_end", "estimated_annual_reductions",
                   "total_buffer_pool">>

\* The scored fields that hold numbers; the others hold strings and dates,
\* which never compare equal to 0.
NumericFields == {"estimated_annual_reductions", "total_buffer_pool"}

NotZero(f, cell) == IF f \in NumericFields THEN Val(cell) # 0 ELSE TRUE

\* Mutant: a field holding 0 counted as populated.
_transparency_score_ZeroCounts(row) ==
    LET populated == Cardinality({i \in 1..Len(scored_fields) :
                        /\ scored_fields[i] \in DOMAIN row
                        /\ ~isna(row[scored_fields[i]])})
    IN  RoundTo(RMul(Rat(populated, Len(scored_fields)), R(100)), 10)

_transparency_score(row) ==
    LET populated == Cardinality({i \in 1..Len(scored_fields) :
                        /\ scored_fields[i] \in DOMAIN row
                        /\ ~isna(row[scored_fields[i]])
                        /\ NotZero(scored_fields[i], row[scored_fields[i]])})
    IN  RoundTo(RMul(Rat(populated, Len(scored_fields)), R(100)), 10)

_additionality_score(row, ref) ==
    LET reg_date == row_get(row, "registration_date", NA)
        cp_start == row_get(row, "crediting_period_start", NA)
        lag_years == Years(DaysBetween(Val(reg_date), Val(cp_start)))
    IN  IF isna(reg_date) \/ isna(cp_start) THEN R(50)
        ELSE IF RLe(lag_years, R(1)) THEN R(90)
        ELSE IF RLe(lag_years, R(3)) THEN R(75)
        ELSE IF RLe(lag_years, R(6)) THEN R(55)
        ELSE IF RLe(lag_years, R(10)) THEN R(35)
        ELSE R(15)

_governance_score(country) ==
    IF isna(country) THEN RMul(DEFAULT_GOVERNANCE_SCORE, R(100))
    ELSE RoundTo(RMul(governance_get(strip(Val(country)), DEFAULT_GOVERNANCE_SCORE), R(100)), 10)

(***************************************************************************)
(* IEEE 754 binary64, for the sum of the weights.  A positive double is    *)
(* [hi, lo, exp]: its 53-bit significand is hi * 2^27 + lo, with           *)
(* 2^25 <= hi < 2^26 and 0 <= lo < 2^27, and its value is                  *)
(* significand * 2^(exp - 53).                                             *)
(***************************************************************************)
\* A significand with the bits dropped below it (width bits, as a number):
\* round to nearest, ties to even, and renormalise.
F64Round(hi, lo, e, dropped, width) ==
    LET half == IF width = 0 THEN 1 ELSE 2^(width - 1)
        up == width > 0 /\ (dropped > half \/ (dropped = half /\ lo % 2 = 1))
    IN  IF ~up THEN [hi |-> hi, lo |-> lo, exp |-> e]
        ELSE IF lo + 1 < 2^27 THEN [hi |-> hi, lo |-> lo + 1, exp |-> e]
        ELSE IF hi + 1 < 2^26 THEN [hi |-> hi + 1, lo |-> 0, exp |-> e]
        ELSE [hi |-> 2^25, lo |-> 0, exp |-> e + 1]

\* The double a decimal literal n/d (0 < n/d < 1, d < 2^16) denotes: the
\* binary expansion of n/d by long division, 13 + 13 + 13 + 14 bits, and the
\* remainder deciding the rounding.
F64(n, d) ==
    LET k == CHOOSE j \in 0..20 : 2^j * n < d /\ d <= 2^(j + 1) * n
        r0 == 2^k * n
        q1 == (r0 * 2^13) \div d
        r1 == (r0 * 2^13) % d
        q2 == (r1 * 2^13) \div d
        r2 == (r1 * 2^13) % d
        q3 == (r2 * 2^13) \div d
        r3 == (r2 * 2^13) % d
        q4 == (r3 * 2^14) \div d
        r4 == (r3 * 2^14) % d
        \* the next bit, and whether anything follows it
        dropped == 2 * ((2 * r4) \div d) + (IF (2 * r4) % d > 0 THEN 1 ELSE 0)
    IN  F64Round(q1 * 2^13 + q2, q3 * 2^14 + q4, -k, dropped, 2)

\* a + b in binary64 (exponents less than 27 apart), round to nearest, ties
\* to even.
F64Add(a, b) ==
    LET big == IF a.exp >= b.exp THEN a ELSE b
        small == IF a.exp >= b.exp THEN b ELSE a
        s == big.exp - small.exp
        \* small shifted right by s bits
        shi == small.hi \div 2^s
        slo == (small.lo \div 2^s) + (small.hi % 2^s) * 2^(27 - s)
        out == small.lo % 2^s
        lo == big.lo + slo
        hi == big.hi + shi + lo \div 2^27
        l == lo % 2^27
    IN  IF hi < 2^26 THEN F64Round(hi, l, big.exp, out, s)
        ELSE F64Round(hi \div 2, (l \div 2) + (hi % 2) * 2^26, big.exp + 1,
                      (l % 2) * 2^s + out, s + 1)

\* sum(WEIGHTS.values()) as Python computes it, left to right in doubles
RECURSIVE SumWeightsF64(_, _)
SumWeightsF64(w, i) ==
    IF i = 1 THEN F64(w[ScoreDims[1]][1], w[ScoreDims[1]][2])
    ELSE F64Add(SumWeightsF64(w, i - 1), F64(w[ScoreDims[i]][1], w[ScoreDims[i]][2]))

\* 1.0
F64One == [hi |-> 2^25, lo |-> 0, exp |-> 1]

(***************************************************************************)
(* src/scorer.py: score_all                                                *)
(***************************************************************************)
columns(df) == IF Len(df) = 0 THEN {} ELSE DOMAIN df[1]

\* sum(df[dim] * weight for dim, weight in WEIGHTS.items()).round(2)
\* w is self.WEIGHTS as the scorer object sees it.
RECURSIVE WeightedSum(_, _, _)
WeightedSum(row, w, i) ==
    IF i = 0 THEN R(0)
    ELSE RAdd(WeightedSum(row, w, i - 1), RMul(row[ScoreDims[i]], w[ScoreDims[i]]))

\* Mutant: the sub-scores summed without their weights.
Cqi_Unweighted(row, w) ==
    RoundTo(RAdd(RAdd(RAdd(row[ScoreDims[1]], row[ScoreDims[2]]),
                      RAdd(row[ScoreDims[3]], row[ScoreDims[4]])),
                 RAdd(row[ScoreDims[5]], row[ScoreDims[6]])), 100)

\* Mutant: the weighted sum cut to 2 decimals instead of rounded.
Cqi_Truncated(row, w) ==
    Rat(RFloor(RMul(WeightedSum(row, w, Len(ScoreDims)), R(100))), 100)

Cqi(row, w) == RoundTo(WeightedSum(row, w, Len(ScoreDims)), 100)

TierBins == <<0, 40, 55, 70, 85, 100>>

TierLabels == <<"Very Low", "Low", "Medium", "High", "Very High">>

\* Mutant: right=False, bins closed on the left.
cut_LeftClosed(x) ==
    LET upto == Cardinality({i \in 1..Len(TierBins) : RLe(R(TierBins[i]), x)})
    IN  IF upto = 0 \/ upto = Len(TierBins) THEN NA ELSE Some(TierLabels[upto])

\* pd.cut(x, bins=TierBins, labels=TierLabels, include_lowest=True):
\* bins are right-closed; a value outside every bin gets no label.
cut(x) ==
    LET below == Cardinality({i \in 1..Len(TierBins) : RLt(R(TierBins[i]), x)})
        ids == IF x = R(TierBins[1]) THEN 1 ELSE below
    IN  IF ids = 0 \/ ids = Len(TierBins) THEN NA ELSE Some(TierLabels[ids])

ScoreCols == {"vintage_score", "retirement_ratio_score", "project_type_score",
              "transparency_score", "additionality_score", "governance_score",
              "cqi", "quality_tier"}

\* df["project_type"] and df["country"] are indexed directly.
ScoreAllRaises(df) == "project_type" \notin columns(df) \/ "country" \notin columns(df)

DimScore(row, dim, ref) ==
    CASE dim = "vintage_score" -> _vintage_score(row, ref)
      [] dim = "retirement_ratio_score" -> _retirement_ratio_score(row)
      [] dim = "project_type_score" -> _project_type_score(row["project_type"])
      [] dim = "transparency_score" -> _transparency_score(row)
      [] dim = "additionality_score" -> _additionality_score(row, ref)
      [] dim = "governance_score" -> _governance_score(row["country"])

WithScores(row, ref) ==
    [c \in DOMAIN row \cup {ScoreDims[i] : i \in 1..Len(ScoreDims)} |->
        IF \E i \in 1..Len(ScoreDims) : ScoreDims[i] = c THEN DimScore(row, c, ref) ELSE row[c]]

WithCqi(row, w) ==
    LET c == Cqi(row, w)
    IN  [k \in DOMAIN row \cup {"cqi", "quality_tier"} |->
            IF k = "cqi" THEN c ELSE IF k = "quality_tier" THEN cut(c) ELSE row[k]]

\* Mutant: the best cqi of the batch is set to 100.
score_all_BestIsHundred(df, ref, w) ==
    LET std == [i \in 1..Len(df) |-> WithCqi(WithScores(df[i], ref), w)]
    IN  [i \in 1..Len(df) |->
            IF \A j \in 1..Len(df) : RLe(std[j]["cqi"], std[i]["cqi"])
            THEN [std[i] EXCEPT !["cqi"] = R(100)]
            ELSE std[i]]

\* The frame score_all returns when it does not raise.
score_all(df, ref, w) == [i \in 1..Len(df) |-> WithCqi(WithScores(df[i], ref), w)]

(***************************************************************************)
(* src/red_flags.py                                                        *)
(***************************************************************************)
FlagCodes == <<"HIGH_VINTAGE", "ZERO_RETIREMENTS", "LOW_RETIREMENT_RATIO",
               "REDD_CONTROVERSY", "MASSIVE_ISSUANCE", "REGISTRATION_LAG",
               "WEAK_GOVERNANCE", "EXPIRED_CREDITING", "INCOMPLETE_DATA">>

\* FLAG_CATALOGUE[code].severity
Severity(code) ==
    CASE code \in {"ZERO_RETIREMENTS", "REDD_CONTROVERSY"} -> "high"
      [] code \in {"HIGH_VINTAGE", "LOW_RETIREMENT_RATIO", "MASSIVE_ISSUANCE",
                   "REGISTRATION_LAG", "WEAK_GOVERNANCE"} -> "medium"
      [] code \in {"EXPIRED_CREDITING", "INCOMPLETE_DATA"} -> "low"

InCatalogue(code) == \E i \in 1..Len(FlagCodes) : FlagCodes[i] = code

GOVERNANCE_THRESHOLD == 45

STR_REDD == <<"R","E","D","D">>

InList(code, x) == \E i \in 1..Len(x) : x[i] = code

\* _add_flag on one row: x + [code] if code not in x else x
_add_flag(row, mask, code) ==
    IF mask /\ ~InList(code, row["flags"])
    THEN [row EXCEPT !["flags"] = Append(@, code)]
    ELSE row

_flag_high_vintage(row) ==
    IF "vintage_score" \in DOMAIN row
    THEN _add_flag(row, RLt(row["vintage_score"], R(30)), "HIGH_VINTAGE")
    ELSE row

_flag_zero_retirements(row) ==
    IF "total_retired" \in DOMAIN row /\ "total_issued" \in DOMAIN row
    THEN _add_flag(row, row["total_issued"] > 0 /\ row["total_retired"] = 0, "ZERO_RETIREMENTS")
    ELSE row

\* Mutant: a ratio of exactly 0.10 flagged too.
_flag_low_retirement_ratio_Inclusive(row) ==
    IF "total_retired" \in DOMAIN row /\ "total_issued" \in DOMAIN row
    THEN _add_flag(row,
            /\ row["total_issued"] > 0
            /\ row["total_retired"] > 0
            /\ RLe(Rat(row["total_retired"], row["total_issued"]), Rat(10, 100)),
            "LOW_RETIREMENT_RATIO")
    ELSE row

\* Mutant: the rule without its total_retired > 0 condition.
_flag_low_retirement_ratio_WithZero(row) ==
    IF "total_retired" \in DOMAIN row /\ "total_issued" \in DOMAIN row
    THEN _add_flag(row,
            /\ row["total_issued"] > 0
            /\ RLt(Rat(row["total_retired"], row["total_issued"]), Rat(10, 100)),
            "LOW_RETIREMENT_RATIO")
    ELSE row

\* ratio is NaN where total_issued is 0, and NaN < 0.10 is False
_flag_low_retirement_ratio(row) ==
    IF "total_retired" \in DOMAIN row /\ "total_issued" \in DOMAIN row
    THEN _add_flag(row,
            /\ row["total_issued"] > 0
            /\ row["total_retired"] > 0
            /\ RLt(Rat(row["total_retired"], row["total_issued"]), Rat(10, 100)),
            "LOW_RETIREMENT_RATIO")
    ELSE row

\* str.contains("REDD", case=False, na=False)
_flag_redd_controversy(row) ==
    IF "project_type" \in DOMAIN row
    THEN _add_flag(row,
            /\ ~isna(row["project_type"])
            /\ contains(lower(Val(row["project_type"])), lower(STR_REDD)),
            "REDD_CONTROVERSY")
    ELSE row

MASSIVE_ISSUANCE_THRESHOLD == 50000000

\* Mutant: the issuance limit at one million.
_flag_massive_issuance_Million(row) ==
    IF "total_issued" \in DOMAIN row
    THEN _add_flag(row, row["total_issued"] > 1000000, "MASSIVE_ISSUANCE")
    ELSE row

_flag_massive_issuance(row) ==
    IF "total_issued" \in DOMAIN row
    THEN _add_flag(row, row["total_issued"] > MASSIVE_ISSUANCE_THRESHOLD, "MASSIVE_ISSUANCE")
    ELSE row

_flag_registration_lag(row) ==
    IF "additionality_score" \in DOMAIN row
    THEN _add_flag(row, RLt(row["additionality_score"], R(40)), "REGISTRATION_LAG")
    ELSE row

\* Mutant: a governance_score equal to the threshold flagged too.
_flag_weak_governance_Inclusive(row) ==
    IF "governance_score" \in DOMAIN row
    THEN _add_flag(row, RLe(row["governance_score"], R(GOVERNANCE_THRESHOLD)), "WEAK_GOVERNANCE")
    ELSE row

_flag_weak_governance(row) ==
    IF "governance_score" \in DOMAIN row
    THEN _add_flag(row, RLt(row["governance_score"], R(GOVERNANCE_THRESHOLD)), "WEAK_GOVERNANCE")
    ELSE row

\* Mutant: the threshold taken from a fixed date, not from the clock.
_flag_expired_crediting_FixedDate(row, today) ==
    IF "crediting_period_end" \in DOMAIN row
    THEN LET threshold == AddMonths(<<2024, 1, 1>>, 12)
         IN  _add_flag(row,
                /\ ~isna(row["crediting_period_end"])
                /\ DateLe(Val(row["crediting_period_end"]), threshold),
                "EXPIRED_CREDITING")
    ELSE row

\* today is the wall clock at the time detect runs
_flag_expired_crediting(row, today) ==
    IF "crediting_period_end" \in DOMAIN row
    THEN LET threshold == AddMonths(today, 12)
         IN  _add_flag(row,
                /\ ~isna(row["crediting_period_end"])
                /\ DateLe(Val(row["crediting_period_end"]), threshold),
                "EXPIRED_CREDITING")
    ELSE row

\* Mutant: no guard, a missing transparency_score read as 0.
_flag_incomplete_data_Unguarded(row) ==
    _add_flag(row, RLt(row_get(row, "transparency_score", R(0)), R(40)), "INCOMPLETE_DATA")

_flag_incomplete_data(row) ==
    IF "transparency_score" \in DOMAIN row
    THEN _add_flag(row, RLt(row["transparency_score"], R(40)), "INCOMPLETE_DATA")
    ELSE row

SeverityOrder(s) ==
    CASE s = "high" -> 3 [] s = "medium" -> 2 [] s = "low" -> 1 [] OTHER -> 0

\* Mutant: the severity of the first flag instead of the worst one.
_max_severity_First(flags) ==
    IF Len(flags) = 0 THEN "none"
    ELSE IF ~InCatalogue(flags[1]) THEN "unknown"
    ELSE Severity(flags[1])

\* Mutant: max(severities) without the key, the greatest string.
_max_severity_Lexical(flags) ==
    LET severities == {Severity(flags[i]) : i \in {j \in 1..Len(flags) : InCatalogue(flags[j])}}
    IN  IF Len(flags) = 0 THEN "none"
        ELSE IF severities = {} THEN "unknown"
        ELSE IF "medium" \in severities THEN "medium"
        ELSE IF "low" \in severities THEN "low"
        ELSE "high"

_max_severity(flags) ==
    LET severities == {Severity(flags[i]) : i \in {j \in 1..Len(flags) : InCatalogue(flags[j])}}
    IN  IF Len(flags) = 0 THEN "none"
        ELSE IF severities = {} THEN "unknown"
        ELSE CHOOSE s \in severities : \A u \in severities : SeverityOrder(s) >= SeverityOrder(u)

\* df["flags"] = [[] ...], replacing a flags column already there
WithEmptyFlags(row) ==
    [c \in DOMAIN row \cup {"flags"} |-> IF c = "flags" THEN <<>> ELSE row[c]]

ApplyRules(row, today) ==
    LET r0 == WithEmptyFlags(row)
        r1 == _flag_high_vintage(r0)
        r2 == _flag_zero_retirements(r1)
        r3 == _flag_low_retirement_ratio(r2)
        r4 == _flag_redd_controversy(r3)
        r5 == _flag_massive_issuance(r4)
        r6 == _flag_registration_lag(r5)
        r7 == _flag_weak_governance(r6)
        r8 == _flag_expired_crediting(r7, today)
    IN  _flag_incomplete_data(r8)

\* Mutant: flag_count counts the high and medium flags only.
WithFlagStats_SkipLow(row) ==
    [c \in DOMAIN row \cup {"flag_count", "max_severity"} |->
        IF c = "flag_count"
        THEN Cardinality({i \in 1..Len(row["flags"]) : Severity(row["flags"][i]) # "low"})
        ELSE IF c = "max_severity" THEN _max_severity(row["flags"])
        ELSE row[c]]

WithFlagStats(row) ==
    [c \in DOMAIN row \cup {"flag_count", "max_severity"} |->
        IF c = "flag_count" THEN Len(row["flags"])
        ELSE IF c = "max_severity" THEN _max_severity(row["flags"])
        ELSE row[c]]

detect(df, today) == [i \in 1..Len(df) |-> WithFlagStats(ApplyRules(df[i], today))]

\* FLAG_CATALOGUE[code].label
Label(code) ==
    CASE code = "HIGH_VINTAGE" -> "High Vintage Age"
      [] code = "ZERO_RETIREMENTS" -> "No Retirements Recorded"
      [] code = "LOW_RETIREMENT_RATIO" -> "Low Retirement Rate (<10%)"
      [] code = "REDD_CONTROVERSY" -> "REDD+ Controversy Risk"
      [] code = "MASSIVE_ISSUANCE" -> "Unusually High Issuance Volume"
      [] code = "REGISTRATION_LAG" -> "Long Registration Lag (>5 years)"
      [] code = "WEAK_GOVERNANCE" -> "Weak Host Country Governance"
      [] code = "EXPIRED_CREDITING" -> "Expired or Expiring Crediting Period"
      [] code = "INCOMPLETE_DATA" -> "Incomplete Public Documentation"

\* The places <<record, index>> of a code in the flags lists of df, which are
\* its places in all_flags.
Occurrences(df, code) ==
    UNION { { <<i, k>> : k \in {j \in 1..Len(df[i]["flags"]) : df[i]["flags"][j] = code} }
            : i \in 1..Len(df) }

\* a comes before b in all_flags
Before(a, b) == a[1] < b[1] \/ (a[1] = b[1] /\ a[2] < b[2])

\* Mutant: pct_of_portfolio as a share of the flags, not of the records.
SummaryRow_ShareOfFlags(df, code) ==
    [flag_code |-> code,
     label |-> IF InCatalogue(code) THEN Label(code) ELSE code,
     severity |-> IF InCatalogue(code) THEN Severity(code) ELSE "unknown",
     project_count |-> Cardinality(Occurrences(df, code)),
     pct_of_portfolio |->
        RoundTo(RMul(Rat(Cardinality(Occurrences(df, code)),
                         Cardinality(UNION {Occurrences(df, FlagCodes[c]) : c \in 1..Len(FlagCodes)})),
                     R(100)), 10)]

\* One row of the summary: count is Counter(all_flags)[code].
SummaryRow(df, code) ==
    [flag_code |-> code,
     label |-> IF InCatalogue(code) THEN Label(code) ELSE code,
     severity |-> IF InCatalogue(code) THEN Severity(code) ELSE "unknown",
     project_count |-> Cardinality(Occurrences(df, code)),
     pct_of_portfolio |->
        RoundTo(RMul(Rat(Cardinality(Occurrences(df, code)), Len(df)), R(100)), 10)]

\* Mutant: the codes in the order Counter met them, not by count.
most_common_Unsorted(df) ==
    LET codes == {FlagCodes[c] : c \in 1..Len(FlagCodes)}
        seen == {c \in codes : Occurrences(df, c) # {}}
        firstOf(c) == CHOOSE a \in Occurrences(df, c) : \A b \in Occurrences(df, c) : a = b \/ Before(a, b)
        rank(c) == Cardinality({o \in seen : Before(firstOf(o), firstOf(c))})
    IN  [r \in 1..Cardinality(seen) |-> CHOOSE c \in seen : rank(c) = r - 1]

\* Counter(all_flags).most_common(): the codes met, by decreasing count, codes
\* of equal count in the order they were first met.
most_common(df) ==
    LET codes == {FlagCodes[c] : c \in 1..Len(FlagCodes)}
        seen == {c \in codes : Occurrences(df, c) # {}}
        count(c) == Cardinality(Occurrences(df, c))
        firstOf(c) == CHOOSE a \in Occurrences(df, c) : \A b \in Occurrences(df, c) : a = b \/ Before(a, b)
        rank(c) == Cardinality({o \in seen : \/ count(o) > count(c)
                                              \/ (count(o) = count(c) /\ Before(firstOf(o), firstOf(c)))})
    IN  [r \in 1..Cardinality(seen) |-> CHOOSE c \in seen : rank(c) = r - 1]

\* pd.DataFrame(rows): its columns are the keys of the row dicts, so a frame
\* made from no row has no column.
get_flag_summary(df) ==
    LET order == most_common(df)
    IN  [r \in 1..Len(order) |-> SummaryRow(df, order[r])]

(***************************************************************************)
(* Input batches.                                                          *)
(***************************************************************************)
STR_REDD_PLUS_PADDED == <<" ","R","E","D","D","+"," ">>

STR_REDD_LOWER_PILOT == <<"r","e","d","d","+"," ","p","i","l","o","t">>

STR_RENEWABLE_ENERGY == <<"R","e","n","e","w","a","b","l","e"," ","E","n","e","r","g","y">>

STR_METHANE == <<"M","e","t","h","a","n","e"," ","C","a","p","t","u","r","e"," ","-"," ","L","i","v","e","s","t","o","c","k">>

STR_BRAZIL == <<"B","r","a","z","i","l">>

STR_INDIA == <<"I","n","d","i","a">>

STR_INDONESIA == <<"I","n","d","o","n","e","s","i","a">>

STR_CAMBODIA == <<"C","a","m","b","o","d","i","a">>

STR_TANZANIA == <<"T","a","n","z","a","n","i","a">>

STR_GERMANY == <<"G","e","r","m","a","n","y">>

STR_UNITED_STATES == <<"U","n","i","t","e","d"," ","S","t","a","t","e","s">>

\* a country the governance table does not list
STR_ATLANTIS == <<"A","t","l","a","n","t","i","s">>

InputCols == {"project_id", "country", "project_type", "registration_date",
              "crediting_period_start", "crediting_period_end", "total_issued",
              "total_retired", "total_buffer_pool", "estimated_annual_reductions",
              "proponent", "region"}

MkRow(id, country, ptype, reg, cps, cpe, issued, retired, buffer, ear, proponent, region) ==
    [c \in InputCols |->
        CASE c = "project_id" -> id
          [] c = "country" -> country
          [] c = "project_type" -> ptype
          [] c = "registration_date" -> reg
          [] c = "crediting_period_start" -> cps
          [] c = "crediting_period_end" -> cpe
          [] c = "total_issued" -> issued
          [] c = "total_retired" -> retired
          [] c = "total_buffer_pool" -> buffer
          [] c = "estimated_annual_reductions" -> ear
          [] c = "proponent" -> proponent
          [] c = "region" -> region]

\* df.drop(columns=[col])
DropColumn(row, col) == [c \in (DOMAIN row) \ {col} |-> row[c]]

\* The explicit reference date the tests pass to score_all.
RefDate == <<2024, 1, 1>>

StartClock == <<2024, 1, 1>>

RegistrationDates == {NA, Some(<<2022, 1, 1>>), Some(<<2016, 1, 1>>), Some(<<2008, 1, 1>>)}

CreditingStarts == {NA, Some(<<2006, 1, 1>>), Some(<<2021, 1, 1>>)}

CreditingEnds == {NA, Some(<<2025, 3, 1>>), Some(<<2041, 1, 1>>)}

ProjectTypes == {NA, Some(STR_REDD_PLUS), Some(STR_REDD), Some(STR_IFM), Some(STR_RENEWABLE_ENERGY)}

Countries == {NA, Some(STR_CAMBODIA), Some(STR_TANZANIA), Some(STR_GERMANY), Some(STR_ATLANTIS)}

\* <<total_issued, total_retired>>
Ledgers == {<<0, 0>>, <<100000000, 0>>, <<2000000, 1900000>>, <<20, 15>>, <<20, 1>>}

\* <<proponent, region, estimated_annual_reductions, total_buffer_pool>>
Documentation == {<<NA, NA, Some(0), NA>>, <<Some("Org A"), NA, Some(500), Some(0)>>,
                  <<Some("Org A"), Some("Asia Pacific"), Some(500), Some(50)>>}

\* tests/test_red_flags.py scored_sample
FixtureRedFlags == <<
    MkRow("VCS001", Some(STR_CAMBODIA), Some(STR_REDD_PLUS), Some(<<2008, 1, 1>>),
          Some(<<2006, 1, 1>>), Some(<<2023, 6, 1>>), 100000000, 0,
          Some(10000000), Some(10000000), Some("Org A"), Some("Asia Pacific")),
    MkRow("VCS002", Some(STR_UNITED_STATES), Some(STR_RENEWABLE_ENERGY), Some(<<2022, 1, 1>>),
          Some(<<2021, 1, 1>>), Some(<<2041, 1, 1>>), 2000000, 1900000,
          Some(200000), Some(200000), Some("Org B"), Some("North America")) >>

\* tests/test_scorer.py sample_df
FixtureScorer == <<
    MkRow("VCS001", Some(STR_BRAZIL), Some(STR_IFM), Some(<<2015, 1, 1>>),
          Some(<<2014, 1, 1>>), Some(<<2029, 1, 1>>), 5000000, 3000000,
          Some(500000), Some(500000), Some("Org A"), Some("Latin America")),
    MkRow("VCS002", Some(STR_INDIA), Some(STR_RENEWABLE_ENERGY), Some(<<2022, 6, 1>>),
          Some(<<2021, 1, 1>>), Some(<<2041, 1, 1>>), 2000000, 1800000,
          Some(200000), Some(200000), Some("Org B"), Some("Asia Pacific")),
    MkRow("VCS003", Some(STR_INDONESIA), Some(STR_REDD_PLUS), Some(<<2010, 3, 15>>),
          Some(<<2008, 1, 1>>), Some(<<2023, 1, 1>>), 80000000, 2000000,
          Some(8000000), Some(8000000), Some("Org C"), Some("Asia Pacific")),
    MkRow("VCS004", Some(STR_UNITED_STATES), Some(STR_METHANE), Some(<<2021, 9, 1>>),
          Some(<<2020, 1, 1>>), Some(<<2040, 1, 1>>), 1500000, 0,
          Some(150000), Some(150000), Some("Org D"), Some("North America")) >>

\* Registration dates around the ages 3, 8, 12 and 16 years before RefDate.
VintageDates == {<<2023, 6, 1>>, <<2021, 1, 1>>, <<2020, 12, 31>>, <<2018, 7, 1>>,
                 <<2016, 1, 1>>, <<2015, 12, 31>>, <<2014, 1, 1>>, <<2012, 1, 1>>,
                 <<2011, 12, 31>>, <<2010, 1, 1>>, <<2008, 1, 1>>, <<2007, 12, 31>>,
                 <<2000, 1, 1>>}

\* a type that names a medium-risk and a high-risk entry
STR_IFM_AND_REDD == <<"i","m","p","r","o","v","e","d"," ","f","o","r","e","s","t"," ","m","a","n","a","g","e","m","e","n","t"," ","/"," ","R","E","D","D","+">>

\* Other project type spellings, and no type.
TypeVariants == {Some(STR_REDD_PLUS_PADDED), Some(STR_REDD_LOWER_PILOT), Some(STR_METHANE),
                 Some(STR_AVOIDED_DEFORESTATION), Some(STR_AVOIDED_UNPLANNED),
                 Some(STR_AFOLU), Some(STR_ARR), Some(<<>>), Some(STR_IFM_AND_REDD), NA}

\* One record, every combination of the field values above.
InitSingle ==
    \E reg \in RegistrationDates, cps \in CreditingStarts, cpe \in CreditingEnds,
       ptype \in ProjectTypes, country \in Countries, ledger \in Ledgers,
       doc \in Documentation :
        batch = << MkRow("VCS001", country, ptype, reg, cps, cpe, ledger[1], ledger[2],
                         doc[4], doc[3], doc[1], doc[2]) >>

\* Two records that differ only in total_retired.
InitRetiredPair ==
    \E r1 \in 0..PairIssued, r2 \in 0..PairIssued :
        /\ r1 <= r2
        /\ batch = << [FixtureRedFlags[2] EXCEPT !["total_issued"] = PairIssued, !["total_retired"] = r1],
                      [FixtureRedFlags[2] EXCEPT !["project_id"] = "VCS003",
                                                 !["total_issued"] = PairIssued, !["total_retired"] = r2] >>

\* Two records that differ only in registration_date.
InitVintagePair ==
    \E d1 \in VintageDates, d2 \in VintageDates :
        batch = << [FixtureRedFlags[2] EXCEPT !["registration_date"] = Some(d1)],
                   [FixtureRedFlags[2] EXCEPT !["project_id"] = "VCS003",
                                              !["registration_date"] = Some(d2)] >>

\* The tests' batches, and their records with another project type.
InitFixture ==
    \/ batch = FixtureRedFlags
    \/ batch = FixtureScorer
    \/ \E i \in 1..Len(FixtureScorer), ptype \in TypeVariants :
            batch = << [FixtureScorer[i] EXCEPT !["project_type"] = ptype] >>

\* A batch whose schema lacks one input column.
InitMissingColumn ==
    \E col \in InputCols \ {"project_id"} :
        \/ batch = [i \in 1..Len(FixtureRedFlags) |-> DropColumn(FixtureRedFlags[i], col)]
        \/ batch = [i \in 1..Len(FixtureScorer) |-> DropColumn(FixtureScorer[i], col)]

\* The tests' records with other registration and crediting period end dates.
InitVariedDates ==
    \E i \in 1..Len(FixtureRedFlags), reg \in RegistrationDates, cpe \in CreditingEnds,
       country \in Countries :
        batch = << [FixtureRedFlags[i] EXCEPT !["registration_date"] = reg,
                                              !["crediting_period_end"] = cpe,
                                              !["country"] = country] >>

\* <<country, project_type, total_retired, documentation, registration_date>>:
\* records whose cqi falls on and next to a tier boundary (total_issued is 20,
\* the crediting period runs 2021-01-01 to 2041-01-01, reference date RefDate).
TierBoundaryCases == {
    <<STR_CAMBODIA, STR_REDD_PLUS, 0, 1, <<2014, 10, 1>>>>,
    <<STR_CAMBODIA, STR_REDD_PLUS, 0, 1, <<2014, 10, 3>>>>,
    <<STR_CAMBODIA, STR_REDD_PLUS, 0, 1, <<2014, 10, 5>>>>,
    <<STR_CAMBODIA, STR_REDD_PLUS, 0, 2, <<2018, 1, 29>>>>,
    <<STR_CAMBODIA, STR_REDD_PLUS, 0, 2, <<2018, 2, 1>>>>,
    <<STR_CAMBODIA, STR_REDD_PLUS, 0, 2, <<2018, 2, 4>>>>,
    <<STR_CAMBODIA, STR_REDD_PLUS, 10, 2, <<2020, 7, 30>>>>,
    <<STR_CAMBODIA, STR_REDD_PLUS, 10, 2, <<2020, 8, 2>>>>,
    <<STR_CAMBODIA, STR_REDD_PLUS, 10, 2, <<2020, 8, 5>>>>,
    <<STR_CAMBODIA, STR_IFM, 15, 2, <<2019, 9, 30>>>>,
    <<STR_CAMBODIA, STR_IFM, 15, 2, <<2019, 10, 3>>>>,
    <<STR_CAMBODIA, STR_IFM, 15, 2, <<2019, 10, 6>>>> }

DocumentationProfiles == << <<NA, NA, Some(0), NA>>,
                            <<Some("Org A"), Some("Asia Pacific"), Some(500), Some(50)>> >>

InitTierBoundary ==
    \E case \in TierBoundaryCases :
        LET doc == DocumentationProfiles[case[4]]
        IN  batch = << MkRow("VCS001", Some(case[1]), Some(case[2]), Some(case[5]),
                             Some(<<2021, 1, 1>>), Some(<<2041, 1, 1>>), 20, case[3],
                             doc[4], doc[3], doc[1], doc[2]) >>

\* Portfolios of three records taken from the tests' batches, in any order.
InitPortfolio ==
    LET pool == FixtureRedFlags \o FixtureScorer
    IN  \E i, j, k \in 1..Len(pool) : batch = <<pool[i], pool[j], pool[k]>>

\* The second record of tests/test_red_flags.py with its ledger and its
\* crediting period end on and next to the limits of the rules.
InitRuleBoundary ==
    \E ledger \in {<<50000000, 0>>, <<50000000, 2500000>>, <<50000000, 5000000>>,
                    <<50000001, 0>>},
       cpe \in {<<2025, 1, 1>>, <<2025, 1, 2>>} :
        batch = << [FixtureRedFlags[2] EXCEPT !["total_issued"] = ledger[1],
                                              !["total_retired"] = ledger[2],
                                              !["crediting_period_end"] = Some(cpe)] >>

InitRun ==
    /\ df_raw = <<>>
    /\ df_clean = NA
    /\ summary = NA
    /\ scored = <<>>
    /\ flagged = <<>>
    /\ first = <<>>
    /\ run = 1
    /\ now = StartClock
    /\ ticks = 0
    /\ reference_date = NA
    /\ first_reference = NA

\* The scorer is CarbonQualityScorer(): it reads the WEIGHTS of the class.
InitRest ==
    /\ InitRun
    /\ pc = "loaded"
    /\ weights = ClassWeights

Init ==
    /\ \/ InitSingle
       \/ InitRetiredPair
       \/ InitVintagePair
       \/ InitFixture
       \/ InitMissingColumn
       \/ InitTierBoundary
       \/ InitRuleBoundary
    /\ InitRest

InitPipeline ==
    /\ \/ InitFixture
       \/ InitMissingColumn
       \/ InitVariedDates
    /\ InitRest

(***************************************************************************)
(* Operations.                                                             *)
(***************************************************************************)
\* reference_date=None means datetime.today()
EffectiveReference(ref) == IF isna(ref) THEN now ELSE Val(ref)

ReferenceChoices == {NA, Some(RefDate)}

\* Mutant: score_all without df = df.copy(): the column assignments land in
\* the caller's frame, those made before a KeyError included.
InputAfter_score_all_NoCopy(df, ref, w) ==
    IF ~ScoreAllRaises(df) THEN score_all(df, ref, w)
    ELSE LET done == IF "project_type" \notin columns(df)
                     THEN {"vintage_score", "retirement_ratio_score"}
                     ELSE {"vintage_score", "retirement_ratio_score", "project_type_score",
                           "transparency_score", "additionality_score"}
         IN  [i \in 1..Len(df) |->
                [c \in DOMAIN df[i] \cup done |->
                    IF c \in done THEN DimScore(df[i], c, ref) ELSE df[i][c]]]

\* The caller's frame after score_all(df): df = df.copy() rebinds the name to
\* a new frame, every later assignment is a column of that new frame, and the
\* row functions only read the row they are given.
InputAfter_score_all(df, ref, w) == df

\* The caller's frame after detect(df): the frame is copied, the copy's flags
\* column is given new lists, and _add_flag builds x + [code], a new list, so
\* a list the caller's frame holds is never appended to.
InputAfter_detect(df, today) == df

\* scorer.score_all(batch, reference_date=ref)
ScoreAll(ref) ==
    /\ pc = "loaded"
    /\ IF ScoreAllRaises(batch)
       THEN /\ pc' = "failed"
            /\ UNCHANGED <<scored, reference_date>>
       ELSE /\ pc' = "scored"
            /\ scored' = score_all(batch, EffectiveReference(ref), weights)
            /\ reference_date' = Some(EffectiveReference(ref))
    /\ batch' = InputAfter_score_all(batch, EffectiveReference(ref), weights)
    /\ UNCHANGED <<flagged, first, run, now, ticks, first_reference, weights, summary, df_raw, df_clean>>

\* detector.detect(scored)
Detect ==
    /\ pc = "scored"
    /\ flagged' = detect(scored, now)
    /\ pc' = "flagged"
    /\ scored' = InputAfter_detect(scored, now)
    /\ UNCHANGED <<batch, first, run, now, ticks, reference_date, first_reference, weights, summary, df_raw, df_clean>>

\* scorer.score_all(flagged, reference_date=ref): the pipeline run again on
\* its own output
ReScore(ref) ==
    /\ pc = "flagged"
    /\ run < MaxRuns
    /\ first' = flagged
    /\ first_reference' = reference_date
    /\ scored' = score_all(flagged, EffectiveReference(ref), weights)
    /\ reference_date' = Some(EffectiveReference(ref))
    /\ pc' = "scored"
    /\ run' = run + 1
    /\ flagged' = InputAfter_score_all(flagged, EffectiveReference(ref), weights)
    /\ UNCHANGED <<batch, now, ticks, weights, summary, df_raw, df_clean>>

\* The wall clock advances.
Tick ==
    /\ ticks < MaxTicks
    /\ now' = AddMonths(now, TickMonths)
    /\ ticks' = ticks + 1
    /\ UNCHANGED <<batch, scored, flagged, first, pc, run, reference_date, first_reference, weights, summary, df_raw, df_clean>>

\* One pass: score_all, then detect.
Next ==
    \/ \E ref \in ReferenceChoices : ScoreAll(ref)
    \/ Detect

Spec == Init /\ [][Next]_vars

\* Repeated passes while the wall clock advances.
NextPipeline ==
    \/ \E ref \in ReferenceChoices : ScoreAll(ref)
    \/ Detect
    \/ \E ref \in ReferenceChoices : ReScore(ref)
    \/ Tick

SpecPipeline == InitPipeline /\ [][NextPipeline]_vars

\* Repeated passes over a portfolio that holds the same record at both ends
\* and any record between them.
InitRerun ==
    /\ InitPortfolio
    /\ batch[1] = batch[3]
    /\ InitRest

SpecRerun == InitRerun /\ [][NextPipeline]_vars

\* WEIGHTS dicts a scorer can be given: a subclass of CarbonQualityScorer, or
\* an assignment to the attribute, replaces the dict of the class.  The
\* second sums to 1.10, the third to 0.90, the fourth to 0.
WeightConfigs == {
    ClassWeights,
    [ClassWeights EXCEPT !["governance_score"] = Rat(20, 100)],
    [ClassWeights EXCEPT !["vintage_score"] = Rat(10, 100)],
    [dim \in DOMAIN ClassWeights |-> R(0)] }

\* Before the scorer object is made: its class carries one of the dicts.
InitConfig ==
    /\ \/ InitFixture
       \/ InitMissingColumn
    /\ InitRun
    /\ pc = "configured"
    /\ weights \in WeightConfigs

\* CarbonQualityScorer(): the class defines no __init__, so construction
\* runs object.__init__, which looks at nothing and never raises.
Construct ==
    /\ pc = "configured"
    /\ pc' = "loaded"
    /\ UNCHANGED <<batch, scored, flagged, first, run, now, ticks, reference_date,
                   first_reference, weights, summary, df_raw, df_clean>>

NextConfig ==
    \/ Construct
    \/ \E ref \in ReferenceChoices : ScoreAll(ref)
    \/ Detect

SpecConfig == InitConfig /\ [][NextConfig]_vars

\* detector.get_flag_summary(flagged)
Summarise ==
    /\ pc = "flagged"
    /\ summary' = Some(get_flag_summary(flagged))
    /\ pc' = "summarised"
    /\ UNCHANGED <<batch, scored, flagged, first, run, now, ticks, reference_date,
                   first_reference, weights, df_raw, df_clean>>

\* One record that triggers flags in a portfolio of BigBatch records, the
\* others triggering none.
InitBigBatch ==
    batch = [i \in 1..BigBatch |-> IF i = 1 THEN FixtureRedFlags[1] ELSE FixtureRedFlags[2]]

InitSummary ==
    /\ \/ InitFixture
       \/ InitMissingColumn
       \/ InitVariedDates
       \/ InitPortfolio
       \/ InitBigBatch
    /\ InitRest

NextSummary ==
    \/ \E ref \in ReferenceChoices : ScoreAll(ref)
    \/ Detect
    \/ Summarise

SpecSummary == InitSummary /\ [][NextSummary]_vars

\* The columns the detector's rules read.
RuleColumns == {"vintage_score", "total_issued", "total_retired", "project_type",
                "additionality_score", "governance_score", "crediting_period_end",
                "transparency_score"}

\* df.drop(columns=[col]) on the scored frame before it is given to detect:
\* detect is applied to a frame that lacks some of the columns its rules read.
DropScored(col) ==
    /\ pc = "scored"
    /\ col \in columns(scored)
    /\ Cardinality(RuleColumns \ columns(scored)) < MaxDrops
    /\ scored' = [i \in 1..Len(scored) |-> DropColumn(scored[i], col)]
    /\ UNCHANGED <<batch, flagged, first, pc, run, now, ticks, reference_date,
                   first_reference, weights, summary, df_raw, df_clean>>

NextDetector ==
    \/ \E ref \in ReferenceChoices : ScoreAll(ref)
    \/ \E col \in RuleColumns : DropScored(col)
    \/ Detect

InitDetector ==
    /\ InitFixture
    /\ InitRest

SpecDetector == InitDetector /\ [][NextDetector]_vars

\* The two records of tests/test_red_flags.py in one batch, the fields the
\* tests' assertions do not depend on taking other values.
\* Crediting period starts of the second record: none, and 16, 5.6 and 1
\* years before its registration.
ExampleCreditingStarts == CreditingStarts \cup {Some(<<2016, 6, 1>>)}

InitExamplePair ==
    \E cps \in ExampleCreditingStarts, cpe \in CreditingEnds, doc \in Documentation,
       country \in Countries, redd_cpe \in CreditingEnds :
        batch = << [FixtureRedFlags[1] EXCEPT !["country"] = country,
                                              !["crediting_period_end"] = redd_cpe],
                   [FixtureRedFlags[2] EXCEPT !["crediting_period_start"] = cps,
                                              !["crediting_period_end"] = cpe,
                                              !["proponent"] = doc[1],
                                              !["region"] = doc[2],
                                              !["estimated_annual_reductions"] = doc[3],
                                              !["total_buffer_pool"] = doc[4]] >>

InitExamples ==
    /\ InitExamplePair
    /\ InitRest

SpecExamples == InitExamples /\ [][NextPipeline]_vars

(***************************************************************************)
(* src/cleaner.py: clean_project_data, on the ledger columns.  A raw frame *)
(* of the model has project_id and the three credit columns (the last one  *)
(* may be absent); it has no project_type, registration_date or            *)
(* project_age_years column, so steps 2, 3 and 6 find nothing to do.       *)
(***************************************************************************)
numeric_cols == {"credits_issued_total", "credits_retired_total", "credits_in_buffer",
                 "project_age_years"}

LedgerCols == {"credits_retired_total", "credits_in_buffer", "credits_issued_total"}

\* pd.to_numeric(x, errors="coerce").fillna(0).clip(lower=0) of one cell
ToNumber(cell) == IF isna(cell) \/ Val(cell) < 0 THEN 0 ELSE Val(cell)

\* Step 4, lines 71-79.
NumericIntegrity(row) ==
    [c \in DOMAIN row |-> IF c \in numeric_cols THEN ToNumber(row[c]) ELSE row[c]]

\* total_accounted > df["credits_issued_total"] * 1.01
overcounted(row) ==
    100 * (row["credits_retired_total"] + row["credits_in_buffer"])
        > 101 * row["credits_issued_total"]

\* Lines 82-93: retired := (issued - buffer).clip(lower=0) where overcounted.
CapRetired(row) ==
    IF LedgerCols \subseteq DOMAIN row /\ overcounted(row)
    THEN LET capped == row["credits_issued_total"] - row["credits_in_buffer"]
         IN  [row EXCEPT !["credits_retired_total"] = IF capped < 0 THEN 0 ELSE capped]
    ELSE row

\* np.where(issued > 0, x / issued, 0.0).clip(0, 1)
Share(x, issued) ==
    IF issued > 0
    THEN (IF x > issued THEN R(1) ELSE IF x < 0 THEN R(0) ELSE Rat(x, issued))
    ELSE R(0)

\* pd.cut(issued, bins=[0, 100_000, 1_000_000, 10_000_000, inf]): right-closed
size_tier(issued) ==
    IF issued <= 0 THEN NA
    ELSE IF issued <= 100000 THEN Some("Small (<100K)")
    ELSE IF issued <= 1000000 THEN Some("Medium (100K-1M)")
    ELSE IF issued <= 10000000 THEN Some("Large (1M-10M)")
    ELSE Some("XLarge (>10M)")

_derive_fields(row) ==
    LET has(c) == c \in DOMAIN row
        derived == (IF has("credits_retired_total") /\ has("credits_issued_total")
                    THEN {"retirement_rate"} ELSE {})
                   \cup (IF has("credits_in_buffer") /\ has("credits_issued_total")
                         THEN {"buffer_pool_ratio"} ELSE {})
                   \cup (IF LedgerCols \subseteq DOMAIN row THEN {"credits_remaining"} ELSE {})
                   \cup (IF has("credits_issued_total") THEN {"size_tier"} ELSE {})
    IN  [c \in DOMAIN row \cup derived |->
            CASE c = "retirement_rate" ->
                    Share(row["credits_retired_total"], row["credits_issued_total"])
              [] c = "buffer_pool_ratio" ->
                    Share(row["credits_in_buffer"], row["credits_issued_total"])
              [] c = "credits_remaining" ->
                    LET left == row["credits_issued_total"] - row["credits_retired_total"]
                                    - row["credits_in_buffer"]
                    IN  IF left < 0 THEN 0 ELSE left
              [] c = "size_tier" -> size_tier(row["credits_issued_total"])
              [] OTHER -> row[c]]

\* Step 1 keeps the rows whose raw credits_issued_total is > 0 (NaN > 0 is
\* False); reset_index renumbers the rows that remain.
clean_project_data(df) ==
    LET kept == SelectSeq(df, LAMBDA row : /\ ~isna(row["credits_issued_total"])
                                           /\ Val(row["credits_issued_total"]) > 0)
    IN  [i \in 1..Len(kept) |-> _derive_fields(CapRetired(NumericIntegrity(kept[i])))]

\* Raw cells: NaN, a negative number, and quantities around the raw
\* credits_issued_total values 100 and 1,000,000.
RawIssued == {NA, Some(0), Some(100), Some(1000000)}

RawRetired == {NA, Some(-10), Some(0), Some(50), Some(101), Some(150)}

RawBuffer == {NA, Some(-10), Some(0), Some(1), Some(50), Some(150)}

MkRaw(id, issued, retired, buffer) ==
    [c \in {"project_id"} \cup LedgerCols |->
        CASE c = "project_id" -> id
          [] c = "credits_issued_total" -> issued
          [] c = "credits_retired_total" -> retired
          [] c = "credits_in_buffer" -> buffer]

\* df_raw as fetch_verra_projects hands it over (src/pipeline.py): two
\* records, or the same frame without its credits_in_buffer column.
InitCleaner ==
    /\ \E issued \in RawIssued, retired \in RawRetired, buffer \in RawBuffer,
          other \in {<<Some(100), Some(50), Some(50)>>, <<Some(0), Some(0), Some(0)>>,
                     <<Some(100), Some(0), Some(150)>>},
          with_buffer \in BOOLEAN :
            LET frame == << MkRaw("VCS001", issued, retired, buffer),
                            MkRaw("VCS002", other[1], other[2], other[3]) >>
            IN  df_raw = IF with_buffer THEN frame
                         ELSE [i \in 1..2 |-> DropColumn(frame[i], "credits_in_buffer")]
    /\ df_clean = NA
    /\ pc = "fetched"
    /\ batch = <<>> /\ scored = <<>> /\ flagged = <<>> /\ first = <<>>
    /\ summary = NA /\ run = 1 /\ now = StartClock /\ ticks = 0
    /\ reference_date = NA /\ first_reference = NA /\ weights = ClassWeights

\* df_clean = clean_project_data(df_raw): the function works on df.copy()
Clean ==
    /\ pc = "fetched"
    /\ df_clean' = Some(clean_project_data(df_raw))
    /\ pc' = "cleaned"
    /\ UNCHANGED <<batch, scored, flagged, first, run, now, ticks, reference_date,
                   first_reference, weights, summary, df_raw>>

NextCleaner == Clean

SpecCleaner == InitCleaner /\ [][NextCleaner]_vars

(***************************************************************************)
(* Properties.                                                             *)
(***************************************************************************)
\* score_all has returned a frame (it is still in scored after detect).
Scored == pc \in {"scored", "flagged"}

InRange(x, lo, hi) == RLe(R(lo), x) /\ RLe(x, R(hi))

HasLedger(row) == "total_issued" \in DOMAIN row /\ "total_retired" \in DOMAIN row

\* C1: for every record with total_issued >= 0 and 0 <= total_retired <=
\* total_issued, each of the six sub-scores score_all produces lies in [0,100].
C1_SubScoresInRange ==
    Scored =>
        \A i \in 1..Len(scored) :
            (/\ HasLedger(scored[i])
             /\ scored[i]["total_issued"] >= 0
             /\ 0 <= scored[i]["total_retired"]
             /\ scored[i]["total_retired"] <= scored[i]["total_issued"])
            => \A d \in 1..Len(ScoreDims) : InRange(scored[i][ScoreDims[d]], 0, 100)

\* C2: retirement_ratio_score is monotone non-decreasing in total_retired: for
\* two records with the same total_issued > 0 and total_retired r1 <= r2 <=
\* total_issued, the score for r1 is <= the score for r2.
C2_RetirementMonotone ==
    Scored =>
        \A i, j \in 1..Len(scored) :
            (/\ HasLedger(scored[i]) /\ HasLedger(scored[j])
             /\ scored[i]["total_issued"] > 0
             /\ scored[i]["total_issued"] = scored[j]["total_issued"]
             /\ 0 <= scored[i]["total_retired"]
             /\ scored[i]["total_retired"] <= scored[j]["total_retired"]
             /\ scored[j]["total_retired"] <= scored[j]["total_issued"])
            => RLe(scored[i]["retirement_ratio_score"], scored[j]["retirement_ratio_score"])

\* The record's project_type contains "REDD", whatever the case.
MentionsRedd(row) ==
    /\ "project_type" \in DOMAIN row
    /\ ~isna(row["project_type"])
    /\ \E k \in 0..(Len(Val(row["project_type"])) - 4) :
          LET w == SubSeq(Val(row["project_type"]), k + 1, k + 4)
          IN  /\ w[1] \in {"R", "r"} /\ w[2] \in {"E", "e"}
              /\ w[3] \in {"D", "d"} /\ w[4] \in {"D", "d"}

HasFlag(row, code) == \E k \in 1..Len(row["flags"]) : row["flags"][k] = code

\* C3: every record whose project_type contains "REDD" (case-insensitive, with
\* or without a trailing "+") gets project_type_score 30.0 from score_all and
\* REDD_CONTROVERSY from detect.
C3_ReddScoredAndFlagged ==
    pc = "flagged" =>
        \A i \in 1..Len(flagged) :
            MentionsRedd(flagged[i]) =>
                /\ flagged[i]["project_type_score"] = R(30)
                /\ HasFlag(flagged[i], "REDD_CONTROVERSY")

\* C4: for every record scored by score_all, cqi lies in [0,100].
C4_CqiInRange ==
    Scored => \A i \in 1..Len(scored) : InRange(scored[i]["cqi"], 0, 100)

\* A record scored with a retirement ratio score above 100 and every other
\* sub-score at its highest.
C4_Witness ==
    /\ pc = "scored"
    /\ \E i \in 1..Len(scored) :
          /\ RLt(R(100), scored[i]["retirement_ratio_score"])
          /\ scored[i]["vintage_score"] = R(100)
          /\ scored[i]["project_type_score"] = R(85)
          /\ scored[i]["transparency_score"] = R(100)
          /\ scored[i]["additionality_score"] = R(90)
          /\ scored[i]["governance_score"] = R(90)

\* C5: for every record scored by score_all, quality_tier is assigned and is
\* one of Very Low, Low, Medium, High, Very High.
C5_TierAssigned ==
    Scored =>
        \A i \in 1..Len(scored) :
            /\ ~isna(scored[i]["quality_tier"])
            /\ Val(scored[i]["quality_tier"]) \in {"Very Low", "Low", "Medium", "High", "Very High"}

\* A scored record in the top bin and a scored record in the bottom bin are
\* both reached; this is the top one.
C5_Witness ==
    /\ pc = "scored"
    /\ \E i \in 1..Len(scored) :
          /\ RLt(R(85), scored[i]["cqi"])
          /\ scored[i]["quality_tier"] = Some("Very High")

\* The tier the bins [0,40], (40,55], (55,70], (70,85], (85,100] give to a
\* cqi in hundredths.
TierOfHundredths(c) ==
    IF 0 <= c /\ c <= 4000 THEN "Very Low"
    ELSE IF 4000 < c /\ c <= 5500 THEN "Low"
    ELSE IF 5500 < c /\ c <= 7000 THEN "Medium"
    ELSE IF 7000 < c /\ c <= 8500 THEN "High"
    ELSE IF 8500 < c /\ c <= 10000 THEN "Very High"
    ELSE "none"

Hundredths(x) == RFloor(RMul(x, R(100)))

\* C6: quality_tier is derived from cqi with left-open, right-closed bins, the
\* first one including 0: [0,40] Very Low, (40,55] Low, (55,70] Medium,
\* (70,85] High, (85,100] Very High.
C6_TierBins ==
    Scored =>
        \A i \in 1..Len(scored) :
            scored[i]["quality_tier"] = Some(TierOfHundredths(Hundredths(scored[i]["cqi"])))

\* A record whose cqi is exactly 40.00 is scored Very Low.
C6_Witness ==
    /\ pc = "scored"
    /\ \E i \in 1..Len(scored) :
          /\ scored[i]["cqi"] = R(40)
          /\ scored[i]["quality_tier"] = Some("Very Low")

\* The record of C7: 100,000,000 issued, none retired, REDD+, registered
\* 2008-01-01, crediting from 2006-01-01, in a country the governance table
\* does not list.
IsHighRiskExample(row) ==
    /\ InputCols \subseteq DOMAIN row
    /\ row["total_issued"] = 100000000
    /\ row["total_retired"] = 0
    /\ row["project_type"] = Some(STR_REDD_PLUS)
    /\ row["registration_date"] = Some(<<2008, 1, 1>>)
    /\ row["crediting_period_start"] = Some(<<2006, 1, 1>>)
    /\ ~isna(row["country"])
    /\ \A e \in COUNTRY_GOVERNANCE_SCORE : e[1] # Val(row["country"])

\* C7 as stated: the record above, scored with reference date 2024-01-01, has
\* REDD_CONTROVERSY, MASSIVE_ISSUANCE, ZERO_RETIREMENTS, HIGH_VINTAGE and
\* WEAK_GOVERNANCE among its flags, flag_count >= 3 and max_severity "high".
C7_Original ==
    (pc = "flagged" /\ reference_date = Some(RefDate)) =>
        \A i \in 1..Len(flagged) :
            IsHighRiskExample(flagged[i]) =>
                /\ \A code \in {"REDD_CONTROVERSY", "MASSIVE_ISSUANCE", "ZERO_RETIREMENTS",
                                "HIGH_VINTAGE", "WEAK_GOVERNANCE"} : HasFlag(flagged[i], code)
                /\ flagged[i]["flag_count"] >= 3
                /\ flagged[i]["max_severity"] = "high"

\* C7 amended: the record above has REDD_CONTROVERSY, MASSIVE_ISSUANCE,
\* ZERO_RETIREMENTS and HIGH_VINTAGE among its flags but not WEAK_GOVERNANCE
\* (its governance_score is the default 50.0), flag_count >= 3 and
\* max_severity "high".
C7_HighRiskExample ==
    (pc = "flagged" /\ reference_date = Some(RefDate)) =>
        \A i \in 1..Len(flagged) :
            IsHighRiskExample(flagged[i]) =>
                /\ \A code \in {"REDD_CONTROVERSY", "MASSIVE_ISSUANCE", "ZERO_RETIREMENTS",
                                "HIGH_VINTAGE"} : HasFlag(flagged[i], code)
                /\ ~HasFlag(flagged[i], "WEAK_GOVERNANCE")
                /\ flagged[i]["governance_score"] = R(50)
                /\ flagged[i]["flag_count"] >= 3
                /\ flagged[i]["max_severity"] = "high"

\* The record above has been scored with reference date 2024-01-01 and flagged.
C7_Witness ==
    /\ pc = "flagged"
    /\ reference_date = Some(RefDate)
    /\ \E i \in 1..Len(flagged) :
          /\ IsHighRiskExample(flagged[i])
          /\ flagged[i]["flag_count"] >= 4

\* The columns score_all reads.
ScoringInputs == {"project_type", "country", "registration_date", "crediting_period_start",
                  "total_issued", "total_retired"}
                 \cup {scored_fields[i] : i \in 1..Len(scored_fields)}

\* C8: for a batch whose schema lacks a scoring input column, score_all does
\* not fail and returns a complete scored record for every input record, the
\* affected sub-score being 50.0 (vintage, retirement ratio, project type,
\* additionality, governance).
C8_MissingColumnNeutral ==
    (pc # "loaded" /\ ~(ScoringInputs \subseteq columns(batch))) =>
        /\ pc # "failed"
        /\ Len(scored) = Len(batch)
        /\ \A i \in 1..Len(scored) :
              /\ ScoreCols \subseteq DOMAIN scored[i]
              /\ "registration_date" \notin columns(batch) =>
                    /\ scored[i]["vintage_score"] = R(50)
                    /\ scored[i]["additionality_score"] = R(50)
              /\ "crediting_period_start" \notin columns(batch) =>
                    scored[i]["additionality_score"] = R(50)
              /\ ("total_issued" \notin columns(batch) \/ "total_retired" \notin columns(batch)) =>
                    scored[i]["retirement_ratio_score"] = R(50)
              /\ "project_type" \notin columns(batch) => scored[i]["project_type_score"] = R(50)
              /\ "country" \notin columns(batch) => scored[i]["governance_score"] = R(50)

\* C9: running score_all (same reference date) and detect again on a batch
\* already scored and flagged yields, for every record, the same cqi, flags,
\* flag_count and max_severity as the first run, whenever the second run is
\* executed.
C9_Idempotent ==
    (pc = "flagged" /\ run > 1 /\ reference_date = first_reference) =>
        /\ Len(flagged) = Len(first)
        /\ \A i \in 1..Len(flagged) :
              /\ flagged[i]["cqi"] = first[i]["cqi"]
              /\ flagged[i]["flags"] = first[i]["flags"]
              /\ flagged[i]["flag_count"] = first[i]["flag_count"]
              /\ flagged[i]["max_severity"] = first[i]["max_severity"]

KnownRegistration(row) ==
    "registration_date" \in DOMAIN row /\ ~isna(row["registration_date"])

\* C10: vintage_score is monotone non-increasing in registration age: of two
\* records scored with the same reference date, the one registered earlier
\* has a vintage_score <= the other's.
C10_VintageMonotone ==
    Scored =>
        \A i, j \in 1..Len(scored) :
            (/\ KnownRegistration(scored[i]) /\ KnownRegistration(scored[j])
             /\ DayNumber(Val(scored[i]["registration_date"]))
                    < DayNumber(Val(scored[j]["registration_date"])))
            => RLe(scored[i]["vintage_score"], scored[j]["vintage_score"])

\* Two records registered one day apart, across the age of 8 years.
C10_Witness ==
    /\ pc = "scored"
    /\ \E i, j \in 1..Len(scored) :
          /\ scored[i]["registration_date"] = Some(<<2015, 12, 31>>)
          /\ scored[j]["registration_date"] = Some(<<2016, 1, 1>>)
          /\ scored[j]["vintage_score"] = R(70)
          /\ RLt(scored[i]["vintage_score"], R(70))

(***************************************************************************)
(* Properties of the detector.                                             *)
(***************************************************************************)
\* The columns a rule reads.
Requires(code) ==
    CASE code = "HIGH_VINTAGE" -> {"vintage_score"}
      [] code \in {"ZERO_RETIREMENTS", "LOW_RETIREMENT_RATIO"} -> {"total_issued", "total_retired"}
      [] code = "REDD_CONTROVERSY" -> {"project_type"}
      [] code = "MASSIVE_ISSUANCE" -> {"total_issued"}
      [] code = "REGISTRATION_LAG" -> {"additionality_score"}
      [] code = "WEAK_GOVERNANCE" -> {"governance_score"}
      [] code = "EXPIRED_CREDITING" -> {"crediting_period_end"}
      [] code = "INCOMPLETE_DATA" -> {"transparency_score"}

\* The condition of a rule, on a record that has the columns the rule reads.
Triggers(code, row, today) ==
    CASE code = "HIGH_VINTAGE" -> RLt(row["vintage_score"], R(30))
      [] code = "ZERO_RETIREMENTS" -> row["total_issued"] > 0 /\ row["total_retired"] = 0
      [] code = "LOW_RETIREMENT_RATIO" ->
            /\ row["total_issued"] > 0 /\ row["total_retired"] > 0
            /\ 10 * row["total_retired"] < row["total_issued"]
      [] code = "REDD_CONTROVERSY" -> MentionsRedd(row)
      [] code = "MASSIVE_ISSUANCE" -> row["total_issued"] > 50000000
      [] code = "REGISTRATION_LAG" -> RLt(row["additionality_score"], R(40))
      [] code = "WEAK_GOVERNANCE" -> RLt(row["governance_score"], R(45))
      [] code = "EXPIRED_CREDITING" ->
            /\ ~isna(row["crediting_period_end"])
            /\ DayNumber(Val(row["crediting_period_end"])) <= DayNumber(AddMonths(today, 12))
      [] code = "INCOMPLETE_DATA" -> RLt(row["transparency_score"], R(40))

\* C13: when a column a rule reads is absent from the frame, detect does not
\* fail, the rule's code is in no record's flags, and every other rule is
\* evaluated as usual.
C13_RulesGuarded ==
    pc = "flagged" =>
        /\ Len(flagged) = Len(scored)
        /\ \A i \in 1..Len(flagged) :
              /\ {"flags", "flag_count", "max_severity"} \subseteq DOMAIN flagged[i]
              /\ \A k \in 1..Len(FlagCodes) :
                    IF Requires(FlagCodes[k]) \subseteq DOMAIN flagged[i]
                    THEN HasFlag(flagged[i], FlagCodes[k]) <=> Triggers(FlagCodes[k], flagged[i], now)
                    ELSE ~HasFlag(flagged[i], FlagCodes[k])

\* detect has run on the frame of a REDD+ record with total_issued dropped:
\* the three rules that read it are skipped, the others still flag.
C13_Witness ==
    /\ pc = "flagged"
    /\ \E i \in 1..Len(flagged) :
          /\ "total_issued" \notin DOMAIN flagged[i]
          /\ batch[i]["total_issued"] > 50000000
          /\ batch[i]["total_retired"] = 0
          /\ HasFlag(flagged[i], "REDD_CONTROVERSY")
          /\ HasFlag(flagged[i], "HIGH_VINTAGE")
          /\ flagged[i]["max_severity"] = "high"

\* C14: after detect, for every record, flags holds no code twice, every code
\* in flags is one of the 9 of FLAG_CATALOGUE, 0 <= flag_count <= 9 and
\* flag_count is the number of codes in flags.
C14_FlagsWellFormed ==
    pc = "flagged" =>
        \A i \in 1..Len(flagged) :
            LET flags == flagged[i]["flags"]
            IN  /\ \A a, b \in 1..Len(flags) : a # b => flags[a] # flags[b]
                /\ \A a \in 1..Len(flags) : \E k \in 1..9 : FlagCodes[k] = flags[a]
                /\ Len(FlagCodes) = 9
                /\ 0 <= flagged[i]["flag_count"] /\ flagged[i]["flag_count"] <= 9
                /\ flagged[i]["flag_count"] = Len(flags)

\* A record flagged with six codes or more, one of them of low severity.
C14_Witness ==
    /\ pc = "flagged"
    /\ \E i \in 1..Len(flagged) :
          /\ flagged[i]["flag_count"] >= 6
          /\ HasFlag(flagged[i], "INCOMPLETE_DATA")

HighCodes == {"ZERO_RETIREMENTS", "REDD_CONTROVERSY"}

LowCodes == {"EXPIRED_CREDITING", "INCOMPLETE_DATA"}

MediumCodes == {"HIGH_VINTAGE", "LOW_RETIREMENT_RATIO", "MASSIVE_ISSUANCE",
                "REGISTRATION_LAG", "WEAK_GOVERNANCE"}

FlagSet(row) == {row["flags"][k] : k \in 1..Len(row["flags"])}

\* C15: after detect, max_severity is "none" iff flags is empty, "high" iff
\* flags holds a high-severity code, "medium" iff it holds a medium one and no
\* high one, "low" iff it is non-empty and holds low-severity codes only;
\* "unknown" is never produced.
C15_MaxSeverity ==
    pc = "flagged" =>
        \A i \in 1..Len(flagged) :
            LET fs == FlagSet(flagged[i])
                sev == flagged[i]["max_severity"]
            IN  /\ sev = "none" <=> fs = {}
                /\ sev = "high" <=> fs \cap HighCodes # {}
                /\ sev = "medium" <=> (fs \cap MediumCodes # {} /\ fs \cap HighCodes = {})
                /\ sev = "low" <=> (fs # {} /\ fs \subseteq LowCodes)
                /\ sev # "unknown"

\* A record with one high-severity code after medium and low ones is "high".
C15_Witness ==
    /\ pc = "flagged"
    /\ \E i \in 1..Len(flagged) :
          /\ flagged[i]["max_severity"] = "high"
          /\ FlagSet(flagged[i]) \cap HighCodes = {"REDD_CONTROVERSY"}
          /\ FlagSet(flagged[i]) \cap MediumCodes # {}
          /\ FlagSet(flagged[i]) \cap LowCodes # {}

\* C16: no record has both ZERO_RETIREMENTS and LOW_RETIREMENT_RATIO in its
\* flags after detect.
C16_ZeroLowExclusive ==
    pc = "flagged" =>
        \A i \in 1..Len(flagged) :
            ~(HasFlag(flagged[i], "ZERO_RETIREMENTS") /\ HasFlag(flagged[i], "LOW_RETIREMENT_RATIO"))

\* Of two records with the same total_issued, the one with nothing retired has
\* ZERO_RETIREMENTS and the one with one credit retired LOW_RETIREMENT_RATIO.
C16_Witness ==
    /\ pc = "flagged"
    /\ Len(flagged) = 2
    /\ flagged[1]["total_retired"] = 0
    /\ flagged[2]["total_retired"] = 1
    /\ flagged[1]["total_issued"] = flagged[2]["total_issued"]
    /\ HasFlag(flagged[1], "ZERO_RETIREMENTS") /\ ~HasFlag(flagged[1], "LOW_RETIREMENT_RATIO")
    /\ HasFlag(flagged[2], "LOW_RETIREMENT_RATIO") /\ ~HasFlag(flagged[2], "ZERO_RETIREMENTS")

\* The records of the flagged batch whose flags hold the code.
RecordsWith(code) == {i \in 1..Len(flagged) : HasFlag(flagged[i], code)}

SummaryCounts ==
    \A r \in 1..Len(Val(summary)) :
        LET row == Val(summary)[r]
            N == Len(flagged)
        IN  /\ row.project_count = Cardinality(RecordsWith(row.flag_code))
            /\ 1 <= row.project_count /\ row.project_count <= N
            /\ row.pct_of_portfolio = RoundTo(Rat(row.project_count * 100, N), 10)

\* C17 as stated: for a flagged batch of N >= 1 records and every code of the
\* summary, project_count is the number of records whose flags hold the code,
\* 1 <= project_count <= N, and pct_of_portfolio is project_count / N x 100
\* rounded to 1 decimal, hence in (0,100].
C17_Original ==
    (pc = "summarised" /\ Len(flagged) >= 1) =>
        /\ SummaryCounts
        /\ \A r \in 1..Len(Val(summary)) :
              /\ RLt(R(0), Val(summary)[r].pct_of_portfolio)
              /\ RLe(Val(summary)[r].pct_of_portfolio, R(100))

\* C17 amended: the same counts and percentage, which lies in [0,100]: it is
\* 0.0 when the code is held by less than 0.05 % of the records.
C17_SummaryCounts ==
    (pc = "summarised" /\ Len(flagged) >= 1) =>
        /\ SummaryCounts
        /\ \A r \in 1..Len(Val(summary)) :
              LET row == Val(summary)[r]
              IN  /\ RLe(R(0), row.pct_of_portfolio)
                  /\ RLe(row.pct_of_portfolio, R(100))
                  /\ row.pct_of_portfolio = R(0) <=> row.project_count * 2000 < Len(flagged)

\* The summary of the large portfolio: a code held by one record of BigBatch
\* is reported with pct_of_portfolio 0.0.
C17_Witness ==
    /\ pc = "summarised"
    /\ Len(flagged) = BigBatch
    /\ \E r \in 1..Len(Val(summary)) :
          /\ Val(summary)[r].project_count = 1
          /\ Val(summary)[r].pct_of_portfolio = R(0)

\* C18: the summary has exactly one row for each code that occurs in some
\* record's flags, no row for a code that occurs in none, and its rows are in
\* order of non-increasing project_count.
C18_SummaryRows ==
    pc = "summarised" =>
        LET rows == Val(summary)
        IN  /\ {rows[r].flag_code : r \in 1..Len(rows)}
                  = {FlagCodes[c] : c \in {k \in 1..Len(FlagCodes) : RecordsWith(FlagCodes[k]) # {}}}
            /\ \A a, b \in 1..Len(rows) : a # b => rows[a].flag_code # rows[b].flag_code
            /\ \A r \in 1..(Len(rows) - 1) : rows[r].project_count >= rows[r + 1].project_count

\* A code met after the others in the batch, held by more records, comes
\* first in the summary.
C18_Witness ==
    /\ pc = "summarised"
    /\ Len(Val(summary)) >= 2
    /\ Val(summary)[1].flag_code = "ZERO_RETIREMENTS"
    /\ Val(summary)[1].project_count = 2
    /\ Val(summary)[2].project_count = 1
    /\ Len(flagged[1]["flags"]) >= 2
    /\ flagged[1]["flags"][1] = "HIGH_VINTAGE"
    /\ flagged[1]["flags"][2] = "ZERO_RETIREMENTS"

\* C19: get_flag_summary returns a table with the columns flag_code, label,
\* severity, project_count and pct_of_portfolio for every flagged batch, also
\* one in which no record triggered a flag.
C19_SummaryColumns ==
    pc = "summarised" =>
        columns(Val(summary)) = {"flag_code", "label", "severity", "project_count",
                                 "pct_of_portfolio"}

\* The six sub-scores, cqi and quality_tier of a scored record.
ScoresOf(row) == [c \in ScoreCols |-> row[c]]

\* C20: the scores of a record depend on the record and the reference date
\* only: they are those of a run on the record alone with the same reference
\* date, whatever the other records and its place in the batch, and a later
\* run with the same reference date gives the same scores, whatever the
\* wall-clock time.
C20_ScoresDeterministic ==
    Scored =>
        /\ \A i \in 1..Len(scored) :
              ScoresOf(scored[i])
                  = ScoresOf(score_all(<<batch[i]>>, Val(reference_date), weights)[1])
        /\ (run > 1 /\ reference_date = first_reference) =>
              \A i \in 1..Len(scored) : ScoresOf(scored[i]) = ScoresOf(first[i])

\* A second run, later on the wall clock and with the same reference date, of
\* a batch that holds the same record at both ends and another one between.
C20_Witness ==
    /\ pc = "scored"
    /\ run = 2
    /\ now # StartClock
    /\ reference_date = first_reference
    /\ Len(scored) = 3
    /\ batch[1] = batch[3]
    /\ batch[1] # batch[2]
    /\ ScoresOf(scored[1]) = ScoresOf(scored[3])
    /\ ScoresOf(scored[1]) # ScoresOf(scored[2])

\* C11: a scorer whose six weights do not sum to 1.0 is rejected when it is
\* constructed; score_all is never run with weights that do not sum to 1.0.
C11_WeightsValidated ==
    Scored => SumWeights(weights, Len(ScoreDims)) = R(1)

\* The weighted sum of the six sub-scores of a scored record, with the
\* weights written out.
StatedWeightedSum(row) ==
    RAdd(RAdd(RAdd(RMul(Rat(20, 100), row["vintage_score"]),
                   RMul(Rat(20, 100), row["retirement_ratio_score"])),
              RAdd(RMul(Rat(20, 100), row["project_type_score"]),
                   RMul(Rat(15, 100), row["transparency_score"]))),
         RAdd(RMul(Rat(15, 100), row["additionality_score"]),
              RMul(Rat(10, 100), row["governance_score"])))

CqiIsStatedSum ==
    /\ \A i \in 1..Len(scored) : scored[i]["cqi"] = RoundTo(StatedWeightedSum(scored[i]), 100)
    /\ weights["vintage_score"] = Rat(20, 100)
    /\ weights["retirement_ratio_score"] = Rat(20, 100)
    /\ weights["project_type_score"] = Rat(20, 100)
    /\ weights["transparency_score"] = Rat(15, 100)
    /\ weights["additionality_score"] = Rat(15, 100)
    /\ weights["governance_score"] = Rat(10, 100)
    /\ weights = ClassWeights

Augments(out, inp, written) ==
    /\ Len(out) = Len(inp)
    /\ \A i \in 1..Len(inp) :
          /\ DOMAIN out[i] = DOMAIN inp[i] \cup written
          /\ \A c \in (DOMAIN inp[i]) \ written : out[i][c] = inp[i][c]

DetectCols == {"flags", "flag_count", "max_severity"}

IsCleanExample(row) ==
    /\ InputCols \subseteq DOMAIN row
    /\ row["total_issued"] = 2000000
    /\ row["total_retired"] = 1900000
    /\ row["project_type"] = Some(STR_RENEWABLE_ENERGY)
    /\ row["country"] = Some(STR_UNITED_STATES)
    /\ row["registration_date"] = Some(<<2022, 1, 1>>)

\* The high-risk REDD+ record of C22.
IsReddExample(row) ==
    /\ InputCols \subseteq DOMAIN row
    /\ row["total_issued"] = 100000000
    /\ row["total_retired"] = 0
    /\ row["project_type"] = Some(STR_REDD_PLUS)
    /\ row["registration_date"] = Some(<<2008, 1, 1>>)

\* C22: a record with 2,000,000 issued, 1,900,000 retired, Renewable Energy,
\* United States, registered 2022-01-01, scored with reference date
\* 2024-01-01, has none of ZERO_RETIREMENTS, REDD_CONTROVERSY and
\* MASSIVE_ISSUANCE, and a flag_count strictly less than that of the REDD+
\* record (100,000,000 issued, 0 retired, registered 2008-01-01) of its batch.
C22_CleanExample ==
    (pc = "flagged" /\ reference_date = Some(RefDate)) =>
        \A i \in 1..Len(flagged) :
            IsCleanExample(flagged[i]) =>
                /\ \A code \in {"ZERO_RETIREMENTS", "REDD_CONTROVERSY", "MASSIVE_ISSUANCE"} :
                      ~HasFlag(flagged[i], code)
                /\ \A j \in 1..Len(flagged) :
                      IsReddExample(flagged[j]) =>
                          flagged[i]["flag_count"] < flagged[j]["flag_count"]

\* The closest the two records get: the clean one with three flags, the REDD+
\* one with four.
C22_Witness ==
    /\ pc = "flagged"
    /\ reference_date = Some(RefDate)
    /\ \E i, j \in 1..Len(flagged) :
          /\ IsCleanExample(flagged[i])
          /\ IsReddExample(flagged[j])
          /\ flagged[i]["flag_count"] = 3
          /\ flagged[j]["flag_count"] = 4

(***************************************************************************)
(* The flags against the catalogue's wording.                              *)
(***************************************************************************)
\* (later - earlier).days / 365.25 > n
MoreThanYears(later, earlier, n) == DaysBetween(later, earlier) * 100 > n * 36525

\* C23: HIGH_VINTAGE is triggered for every project whose registration date
\* is more than 10 years before the scoring reference date.
C23_HighVintageOverTen ==
    pc = "flagged" =>
        \A i \in 1..Len(flagged) :
            (/\ KnownRegistration(flagged[i])
             /\ MoreThanYears(Val(reference_date), Val(flagged[i]["registration_date"]), 10))
            => HasFlag(flagged[i], "HIGH_VINTAGE")

KnownDate(row, col) == col \in DOMAIN row /\ ~isna(row[col])

\* C24: REGISTRATION_LAG is triggered for every project registered more than
\* 5 years after its crediting_period_start, and never when either date is
\* missing.
C24_RegistrationLagOverFive ==
    pc = "flagged" =>
        \A i \in 1..Len(flagged) :
            IF KnownDate(flagged[i], "registration_date") /\ KnownDate(flagged[i], "crediting_period_start")
            THEN MoreThanYears(Val(flagged[i]["registration_date"]),
                               Val(flagged[i]["crediting_period_start"]), 5)
                    => HasFlag(flagged[i], "REGISTRATION_LAG")
            ELSE ~HasFlag(flagged[i], "REGISTRATION_LAG")

(***************************************************************************)
(* The nine rules.                                                         *)
(***************************************************************************)
\* One rule applied to a record that has no flag yet.
RuleAlone(code, row, today) ==
    LET r0 == WithEmptyFlags(row)
    IN  CASE code = "HIGH_VINTAGE" -> _flag_high_vintage(r0)
          [] code = "ZERO_RETIREMENTS" -> _flag_zero_retirements(r0)
          [] code = "LOW_RETIREMENT_RATIO" -> _flag_low_retirement_ratio(r0)
          [] code = "REDD_CONTROVERSY" -> _flag_redd_controversy(r0)
          [] code = "MASSIVE_ISSUANCE" -> _flag_massive_issuance(r0)
          [] code = "REGISTRATION_LAG" -> _flag_registration_lag(r0)
          [] code = "WEAK_GOVERNANCE" -> _flag_weak_governance(r0)
          [] code = "EXPIRED_CREDITING" -> _flag_expired_crediting(r0, today)
          [] code = "INCOMPLETE_DATA" -> _flag_incomplete_data(r0)

\* The codes whose stated predicate holds of a scored record, today being the
\* current date when detect runs.
StatedCodes(row, today) ==
    LET issued == row["total_issued"]
        retired == row["total_retired"]
        end == row["crediting_period_end"]
    IN  {code \in {FlagCodes[k] : k \in 1..Len(FlagCodes)} :
            \/ code = "HIGH_VINTAGE" /\ RLt(row["vintage_score"], R(30))
            \/ code = "ZERO_RETIREMENTS" /\ issued > 0 /\ retired = 0
            \/ code = "LOW_RETIREMENT_RATIO" /\ issued > 0 /\ retired > 0 /\ 10 * retired < issued
            \/ code = "REDD_CONTROVERSY" /\ MentionsRedd(row)
            \/ code = "MASSIVE_ISSUANCE" /\ issued > 50000000
            \/ code = "REGISTRATION_LAG" /\ RLt(row["additionality_score"], R(40))
            \/ code = "WEAK_GOVERNANCE" /\ RLt(row["governance_score"], R(45))
            \/ code = "EXPIRED_CREDITING" /\ ~isna(end)
                    /\ DayNumber(Val(end)) <= DayNumber(AddMonths(today, 12))
            \/ code = "INCOMPLETE_DATA" /\ RLt(row["transparency_score"], R(40))}

\* C25: for every scored record that has all the columns the rules read, the
\* flags after detect are exactly the codes whose predicate holds (a ratio
\* of exactly 0.10, an issuance of exactly 50,000,000 are not flagged; a
\* crediting period ending on the current date + 12 months is), and each
\* code is there exactly when its rule alone sets it: no rule depends on
\* another rule's outcome or on the order of the rules.
C25_FlagsAreThePredicates ==
    pc = "flagged" =>
        \A i \in 1..Len(flagged) :
            RuleColumns \subseteq DOMAIN scored[i] =>
                /\ FlagSet(flagged[i]) = StatedCodes(scored[i], now)
                /\ \A k \in 1..Len(FlagCodes) :
                      HasFlag(flagged[i], FlagCodes[k])
                          <=> HasFlag(RuleAlone(FlagCodes[k], scored[i], now), FlagCodes[k])

\* A record on all three limits: 50,000,000 issued, 5,000,000 retired, its
\* crediting period ending on the current date + 12 months.
C25_Witness ==
    /\ pc = "flagged"
    /\ Len(flagged) = 1
    /\ flagged[1]["total_issued"] = 50000000
    /\ flagged[1]["total_retired"] = 5000000
    /\ flagged[1]["crediting_period_end"] = Some(AddMonths(now, 12))
    /\ flagged[1]["flags"] = <<"EXPIRED_CREDITING">>

(***************************************************************************)
(* Governance, project type and transparency.                              *)
(***************************************************************************)
\* The entries of the Country Governance Table for a record's country (its
\* name without surrounding blanks): one entry, or none.
TableEntries(row) ==
    IF isna(row["country"]) THEN {}
    ELSE {e \in COUNTRY_GOVERNANCE_SCORE : e[1] = strip(Val(row["country"]))}

\* C26: governance_score is the country's table value x 100 for a country of
\* the Country Governance Table and 50.0 for a missing or unlisted country;
\* WEAK_GOVERNANCE is triggered exactly for the records whose country has a
\* table value strictly below 0.45 (exactly 0.45 is not flagged), never for a
\* missing or unlisted country.
C26_GovernanceScoreAndFlag ==
    pc = "flagged" =>
        \A i \in 1..Len(flagged) :
            /\ \A e \in TableEntries(flagged[i]) :
                  /\ flagged[i]["governance_score"][1] * e[2][2]
                        = e[2][1] * 100 * flagged[i]["governance_score"][2]
                  /\ HasFlag(flagged[i], "WEAK_GOVERNANCE") <=> e[2][1] * 100 < 45 * e[2][2]
            /\ TableEntries(flagged[i]) = {} =>
                  /\ flagged[i]["governance_score"] = R(50)
                  /\ ~HasFlag(flagged[i], "WEAK_GOVERNANCE")

\* A record of Tanzania (table value 0.45): governance_score 45.0, no flag.
C26_Witness ==
    /\ pc = "flagged"
    /\ \E i \in 1..Len(flagged) :
          /\ flagged[i]["country"] = Some(STR_TANZANIA)
          /\ flagged[i]["governance_score"] = R(45)
          /\ ~HasFlag(flagged[i], "WEAK_GOVERNANCE")

\* The record's type names an entry of the set, whatever the case.
NamesEntry(row, types) ==
    /\ ~isna(row["project_type"])
    /\ \E t \in types : contains(lower(Val(row["project_type"])), lower(t))

\* C27: project_type_score is 50.0 for a missing type, 30.0 when the type
\* contains a High-Risk entry (case-insensitively), otherwise 60.0 when it
\* contains a Medium-Risk entry, otherwise 85.0; a type that contains both
\* scores 30.0; a high-risk type scores strictly lower than a medium-risk
\* type, which scores strictly lower than any other known type.
C27_ProjectTypeScore ==
    Scored =>
        /\ \A i \in 1..Len(scored) :
              LET row == scored[i]
              IN  /\ isna(row["project_type"]) => row["project_type_score"] = R(50)
                  /\ NamesEntry(row, HIGH_RISK_TYPES) => row["project_type_score"] = R(30)
                  /\ (NamesEntry(row, MEDIUM_RISK_TYPES) /\ ~NamesEntry(row, HIGH_RISK_TYPES))
                        => row["project_type_score"] = R(60)
                  /\ (/\ ~isna(row["project_type"])
                      /\ ~NamesEntry(row, MEDIUM_RISK_TYPES)
                      /\ ~NamesEntry(row, HIGH_RISK_TYPES))
                        => row["project_type_score"] = R(85)
        /\ \A i, j \in 1..Len(scored) :
              LET a == scored[i]
                  b == scored[j]
              IN  /\ (/\ NamesEntry(a, HIGH_RISK_TYPES)
                      /\ ~isna(b["project_type"]) /\ ~NamesEntry(b, HIGH_RISK_TYPES))
                        => RLt(a["project_type_score"], b["project_type_score"])
                  /\ (/\ NamesEntry(a, MEDIUM_RISK_TYPES) /\ ~NamesEntry(a, HIGH_RISK_TYPES)
                      /\ ~isna(b["project_type"])
                      /\ ~NamesEntry(b, HIGH_RISK_TYPES) /\ ~NamesEntry(b, MEDIUM_RISK_TYPES))
                        => RLt(a["project_type_score"], b["project_type_score"])

\* A record whose type names a medium-risk entry, then a high-risk one, is
\* scored 30.0.
C27_Witness ==
    /\ pc = "scored"
    /\ \E i \in 1..Len(scored) :
          /\ NamesEntry(scored[i], MEDIUM_RISK_TYPES)
          /\ NamesEntry(scored[i], HIGH_RISK_TYPES)
          /\ scored[i]["project_type_score"] = R(30)

\* The designated fields of a record that are present, non-null and not 0.
PopulatedFields(row) ==
    {f \in {"proponent", "region", "crediting_period_start", "crediting_period_end",
             "estimated_annual_reductions", "total_buffer_pool"} :
        /\ f \in DOMAIN row
        /\ row[f] # NA
        /\ f \in {"estimated_annual_reductions", "total_buffer_pool"} => row[f][1] # 0}

\* (k / 6) x 100 rounded to 1 decimal, for k = 0..6
TransparencyOfCount == <<R(0), Rat(167, 10), Rat(333, 10), R(50), Rat(667, 10), Rat(833, 10), R(100)>>

\* C28: transparency_score is (k / 6) x 100 rounded to 1 decimal, k being
\* the number of the six designated fields that are present, non-null and
\* not 0; it does not decrease as fields become populated; INCOMPLETE_DATA
\* is triggered exactly when k <= 2 (scores 0.0, 16.7, 33.3).
C28_TransparencyScore ==
    pc = "flagged" =>
        /\ \A i \in 1..Len(flagged) :
              LET k == Cardinality(PopulatedFields(flagged[i]))
              IN  /\ flagged[i]["transparency_score"] = TransparencyOfCount[k + 1]
                  /\ 10 * flagged[i]["transparency_score"][1]
                        = RoundHalfEven(<<k * 1000, 6>>) * flagged[i]["transparency_score"][2]
                  /\ HasFlag(flagged[i], "INCOMPLETE_DATA") <=> k <= 2
                  /\ k <= 2 => flagged[i]["transparency_score"] \in {R(0), Rat(167, 10), Rat(333, 10)}
        /\ \A i, j \in 1..Len(flagged) :
              PopulatedFields(flagged[i]) \subseteq PopulatedFields(flagged[j])
                  => RLe(flagged[i]["transparency_score"], flagged[j]["transparency_score"])
        /\ \A k \in 1..6 : RLe(TransparencyOfCount[k], TransparencyOfCount[k + 1])

\* A record with two populated fields and a buffer pool of 0: 33.3, flagged;
\* the other record of its batch has all six: 100.0, not flagged.
C28_Witness ==
    /\ pc = "flagged"
    /\ \E i, j \in 1..Len(flagged) :
          /\ Cardinality(PopulatedFields(flagged[i])) = 2
          /\ flagged[i]["total_buffer_pool"] = Some(0)
          /\ flagged[i]["transparency_score"] = Rat(333, 10)
          /\ HasFlag(flagged[i], "INCOMPLETE_DATA")
          /\ Cardinality(PopulatedFields(flagged[j])) = 6
          /\ ~HasFlag(flagged[j], "INCOMPLETE_DATA")

(***************************************************************************)
(* EXPIRED_CREDITING and the clock.                                        *)
(***************************************************************************)
\* The flags of a record without EXPIRED_CREDITING, in their order.
OtherFlags(row) == SelectSeq(row["flags"], LAMBDA code : code # "EXPIRED_CREDITING")

\* The crediting period of the record ends on or before date + 12 months.
EndsWithinYear(row, date) ==
    /\ "crediting_period_end" \in DOMAIN row
    /\ row["crediting_period_end"] # NA
    /\ DayNumber(row["crediting_period_end"][1]) <= DayNumber(AddMonths(date, 12))

\* C29: whether detect gives a record EXPIRED_CREDITING depends only on its
\* crediting_period_end and on the current date when detect runs, whatever
\* reference date score_all was given; a second detect run over the same
\* scored batch at a later current date differs from the first in
\* EXPIRED_CREDITING only (and in the flag_count and max_severity that
\* follow from it), and a record flagged EXPIRED_CREDITING stays flagged.
C29_ExpiredFollowsClock ==
    [][(pc = "scored" /\ pc' = "flagged") =>
          /\ \A i \in 1..Len(flagged') :
                HasFlag(flagged'[i], "EXPIRED_CREDITING") <=> EndsWithinYear(scored[i], now)
          /\ (run > 1 /\ reference_date = first_reference) =>
                \A i \in 1..Len(flagged') :
                    LET then == first[i]
                        later == flagged'[i]
                    IN  /\ OtherFlags(later) = OtherFlags(then)
                        /\ HasFlag(then, "EXPIRED_CREDITING") => HasFlag(later, "EXPIRED_CREDITING")
                        /\ later["flag_count"] = then["flag_count"] +
                              (IF HasFlag(later, "EXPIRED_CREDITING") /\ ~HasFlag(then, "EXPIRED_CREDITING")
                               THEN 1 ELSE 0)
                        /\ later["flags"] = then["flags"]
                              => later["max_severity"] = then["max_severity"]
                        /\ later["max_severity"] # then["max_severity"]
                              => (then["max_severity"] = "none" /\ later["max_severity"] = "low")]_vars

\* The second detect ran later on the clock than the first, after score_all
\* with the same reference date: a record without any flag then has
\* EXPIRED_CREDITING now, and max_severity "low".
C29_Witness ==
    /\ pc = "flagged"
    /\ run = 2
    /\ now # StartClock
    /\ reference_date = first_reference
    /\ \E i \in 1..Len(flagged) :
          /\ first[i]["flags"] = <<>>
          /\ flagged[i]["flags"] = <<"EXPIRED_CREDITING">>
          /\ first[i]["max_severity"] = "none"
          /\ flagged[i]["max_severity"] = "low"

(***************************************************************************)
(* The cleaned ledger.                                                     *)
(***************************************************************************)
\* The raw record a cleaned record comes from.
RawOf(row) == df_raw[CHOOSE i \in 1..Len(df_raw) : df_raw[i]["project_id"] = row["project_id"]]

NonNegativeRaw(raw) ==
    \A c \in LedgerCols : c \in DOMAIN raw /\ raw[c] # NA /\ raw[c][1] >= 0

\* C30: after clean_project_data, every remaining record whose raw issued,
\* retired and buffer quantities were non-negative has credits_retired_total
\* + credits_in_buffer <= credits_issued_total x 1.01, also when its buffer
\* alone exceeds what was issued, and credits_retired_total >= 0.
C30_LedgerConsistent ==
    pc = "cleaned" =>
        \A i \in 1..Len(Val(df_clean)) :
            LET row == Val(df_clean)[i]
            IN  NonNegativeRaw(RawOf(row)) =>
                    /\ 100 * (row["credits_retired_total"] + row["credits_in_buffer"])
                            <= 101 * row["credits_issued_total"]
                    /\ row["credits_retired_total"] >= 0

====
